---------------------------- MODULE Spec2Model ----------------------------
(***************************************************************************)
(* A model of the option-chain builder and the trading calendar of the    *)
(* NSEIndia class (src/src/legacy/serve.py).                               *)
(*                                                                         *)
(* Dates are day ordinals of the year 2025 (1 = 01-Jan-2025, a Wednesday). *)
(* Date strings of the payload are kept as strings: the code compares      *)
(* them with ==, and _filter_expiry_dates re-formats them.                 *)
(***************************************************************************)
EXTENDS Integers, Sequences, FiniteSets, TLC

VARIABLES
    pc,           \* position of the build_option_chain call
    args,         \* its arguments: symbol, expiry, oi_mode
    eq_symbols,   \* NSEIndia._eq_symbols (None until the first lookup)
    request,      \* the URL get_option_chain asked the fetcher for
    payload,      \* the JSON the fetcher returned
    today,        \* datetime.datetime.now().date()
    result,       \* what build_option_chain returned or raised
    cal_pc,       \* position of the _get_past_trading_date call
    days_arg,     \* the days argument it was called with
    holiday_dates,\* its holiday_dates list
    past_date,    \* its past_date
    days,         \* its days counter
    cal_result,   \* what it returned or raised
    _fno_symbols, \* NSEIndia._fno_symbols (None until a caller assigns it)
    fno_pc,       \* position of each get_fno_symbols call
    fno_ret,      \* what each get_fno_symbols call returned or raised
    fno_fetches,  \* fetches of the F&O list issued so far
    fno_assigns,  \* assignments to _fno_symbols so far
    bs_pc,        \* position of the calculate_black_scholes call
    bs_args,      \* its arguments S0, X, t, sigma, td
    bs_result,    \* what it returned or raised
    beta_pc,      \* position of the calculate_beta call
    beta_args,    \* its arguments symbol, days, symbol2
    beta_df1,     \* df1: the dates and daily changes of symbol
    beta_df2,     \* df2: the dates and daily changes of symbol2
    beta_pairs,   \* the pairs zip(x, y) yields, each value with its date
    beta_result,  \* what it returned or raised
    ind_pc,       \* position of the indicator call
    ind_args,     \* the indicator called and its arguments
    ind_range,    \* the from and to dates of the history URL
    current_start,\* _fetch_historical_data's current_start
    all_data,     \* _fetch_historical_data's all_data
    ind_fetches,  \* how each fetch of the call ended, in order
    ind_result,   \* what the indicator returned or raised
    pcr_pc,       \* position of the get_pcr call
    pcr_args,     \* its arguments symbol, expiry_index
    pcr_payload,  \* the option chain it fetched
    pcr_result,   \* what it returned or raised
    eh_pc,        \* position of the get_expiry_history call
    eh_args,      \* its arguments symbol, start_date, end_date, instrument_type
    eh_payload,   \* the expiryDatesByInstrument it fetched
    eh_result,    \* what it returned or raised
    hist_pc,      \* position of the _fetch_historical_data call
    hist_args,    \* its arguments url, chunk_size
    hist_current_start, \* current_start of its loop
    hist_all_data,      \* all_data of its loop
    hist_fetches, \* the chunk fetches it has awaited, in order
    hist_result,  \* what it returned
    il_cache,     \* the coroutine functools.cache holds for get_index_list(self)
    il_pc,        \* position of each caller of get_index_list
    il_ret,       \* what each caller's await gave
    fs_dirs,      \* the directories that exist on disk
    fs_dumps,     \* the directories that hold today's test_dump csv
    data_directory_path, \* DataAPIClient.data_directory_path
    dump_last,    \* the last call on the client and what it did
    session,      \* NSEFetcher.session: 0 for None, else the session's number
    created,      \* how many aiohttp sessions have been created
    closed,       \* the sessions whose close() has been called
    sess_main,    \* where the owner of the NSEIndia instance is
    sess_pc,      \* position of each _fetch_local call
    sess_ret,     \* how each _fetch_local call ended
    ich_pc,       \* position of the get_ichimoku_cloud call
    ich_data,     \* the history it received
    ich_result    \* the tuple it returned

chainVars == <<pc, args, eq_symbols, request, payload, result>>
calVars == <<cal_pc, days_arg, holiday_dates, past_date, days, cal_result>>
fnoVars == <<_fno_symbols, fno_pc, fno_ret, fno_fetches, fno_assigns>>
\* the variables of the specifications after SpecCalendar
bsVars == <<bs_pc, bs_args, bs_result>>
betaVars == <<beta_pc, beta_args, beta_df1, beta_df2, beta_pairs, beta_result>>
indVars == <<ind_pc, ind_args, ind_range, current_start, all_data, ind_fetches, ind_result>>
pcrVars == <<pcr_pc, pcr_args, pcr_payload, pcr_result>>
\* the variables of the specifications after SpecInd
ehVars == <<eh_pc, eh_args, eh_payload, eh_result>>
histVars == <<hist_pc, hist_args, hist_current_start, hist_all_data, hist_fetches, hist_result>>
ilVars == <<il_cache, il_pc, il_ret>>
dumpVars == <<fs_dirs, fs_dumps, data_directory_path, dump_last>>
sessVars == <<session, created, closed, sess_main, sess_pc, sess_ret>>
ichVars == <<ich_pc, ich_data, ich_result>>
moreVars == <<pcrVars, ehVars, histVars, ilVars, dumpVars, sessVars, ichVars>>
laterVars == <<fnoVars, bsVars, betaVars, indVars, moreVars>>
\* the variables of the specifications up to SpecInd
baseVars == <<chainVars, calVars, today, fnoVars, bsVars, betaVars, indVars>>
vars == <<pc, args, eq_symbols, request, payload, today, result,
          cal_pc, days_arg, holiday_dates, past_date, days, cal_result,
          laterVars>>

None == "None"

(***************************************************************************)
(* Bounds of the model.                                                    *)
(***************************************************************************)
\* longest records.expiryDates list of a payload
MaxExpiries == 2
\* longest records.data list of a payload
MaxRecords == 2
\* largest days argument of _get_past_trading_date
MaxDays == 3
\* the holidays of a calendar lie among this many days before today
HolidaySpan == 4
\* concurrent callers of get_fno_symbols
NumCallers == 3
\* the histories calculate_beta fetches have rows among this many days
MaxBetaDays == 4
\* most rows in the response to one chunk of a history fetch
MaxRows == 2
\* most passes of the loop of a _fetch_historical_data call
MaxChunks == 3
\* most bars in the history get_ichimoku_cloud receives
MaxBars == 80

\* chunk_size of _fetch_historical_data as get_equity_history calls it
DefaultChunkSize == 40

(***************************************************************************)
(* Dates and their "%d-%b-%Y" strings.                                     *)
(***************************************************************************)
\* the date strings payloads and callers use; strptime("%d-%b-%Y") accepts a
\* day without its leading zero, so one date has two spellings
DateStrs == {"30-Jan-2025", "06-Feb-2025", "6-Feb-2025", "13-Feb-2025"}

\* datetime.datetime.strptime(s, "%d-%b-%Y").date(), as a day ordinal
ParseDate(s) ==
    CASE s = "30-Jan-2025" -> 30
      [] s = "06-Feb-2025" -> 37
      [] s = "6-Feb-2025"  -> 37
      [] s = "13-Feb-2025" -> 44

\* date.strftime("%d-%b-%Y"): always the zero-padded spelling
FormatDate(d) ==
    CASE d = 30 -> "30-Jan-2025"
      [] d = 37 -> "06-Feb-2025"
      [] d = 44 -> "13-Feb-2025"

\* the dates on which the model lets a call run
TodayChoices == {37, 38}

(***************************************************************************)
(* Symbols.                                                                *)
(***************************************************************************)
Symbols == {"infy", "M&M", "NIFTY", "ZZZ"}

\* str.upper
Upper(s) == IF s = "infy" THEN "INFY" ELSE s

\* the SYMBOL column of EQUITY_L.csv
EquityList == {"INFY", "M&M"}

\* ["NIFTY", "NIFTYIT", "BANKNIFTY"] + the securities in F&O
FnoList == {"NIFTY", "NIFTYIT", "BANKNIFTY", "INFY", "M&M"}

\* enums.Index
IndexValues == {"NIFTY", "FINNIFTY", "BANKNIFTY"}

\* _purify_symbol: symbol.replace("&", "%26")
_purify_symbol(s) == IF s = "M&M" THEN "M%26M" ELSE s

\* get_equity_symbols: the memoized list, read from the archive when unset
get_equity_symbols(memo) == IF memo = None THEN EquityList ELSE memo

\* is_valid_symbol(symbol, fno)
is_valid_symbol(symbol, fno, memo) ==
    IF fno THEN Upper(symbol) \in FnoList
    ELSE Upper(symbol) \in get_equity_symbols(memo)

\* the validity check build_option_chain makes: is_valid_symbol(symbol)
ChainSymbolValid(symbol, memo) == is_valid_symbol(symbol, FALSE, memo)

\* get_option_chain: the URL it fetches
get_option_chain_url(symbol) ==
    LET s == _purify_symbol(symbol) IN
    IF s \in IndexValues
    THEN [endpoint |-> "option-chain-indices", symbol |-> s]
    ELSE [endpoint |-> "option-chain-equities", symbol |-> s]

(***************************************************************************)
(* Option-chain payloads.                                                  *)
(***************************************************************************)
\* the fields build_option_chain reads from a leg in compact mode, with the
\* column suffix each is written under, in the order of the assignments
CompactFields ==
    << <<"OI", "openInterest">>, <<"Chng in OI", "changeinOpenInterest">>,
       <<"Volume", "totalTradedVolume">>, <<"IV", "impliedVolatility">>,
       <<"LTP", "lastPrice">>, <<"Net Chng", "change">> >>

\* the further fields read in full mode
DepthFields ==
    << <<"Bid Qty", "bidQty">>, <<"Bid Price", "bidprice">>,
       <<"Ask Price", "askPrice">>, <<"Ask Qty", "askQty">> >>

\* a CE or PE leg of the payload carrying every field; k tells legs apart
Leg(k) ==
    [openInterest |-> 10 * k + 1, changeinOpenInterest |-> 10 * k + 2,
     totalTradedVolume |-> 10 * k + 3, impliedVolatility |-> 10 * k + 4,
     lastPrice |-> 10 * k + 5, change |-> 10 * k + 6,
     bidQty |-> 10 * k + 7, bidprice |-> 10 * k + 8,
     askPrice |-> 10 * k + 9, askQty |-> 10 * k + 10]

\* a leg without the quote-depth fields
ThinLeg(k) ==
    [openInterest |-> 10 * k + 1, changeinOpenInterest |-> 10 * k + 2,
     totalTradedVolume |-> 10 * k + 3, impliedVolatility |-> 10 * k + 4,
     lastPrice |-> 10 * k + 5, change |-> 10 * k + 6]

Item(e, k) == [expiryDate |-> e, strikePrice |-> k]

\* the records payloads are made of: both legs, one leg, no leg, a leg
\* without the quote-depth fields, two strikes of one expiry and a second expiry
Records ==
    { Item("06-Feb-2025", 100) @@ ("CE" :> Leg(1)) @@ ("PE" :> Leg(2)),
      Item("06-Feb-2025", 105) @@ ("CE" :> Leg(3)),
      Item("06-Feb-2025", 105) @@ ("PE" :> Leg(4)),
      Item("06-Feb-2025", 100),
      Item("13-Feb-2025", 110) @@ ("CE" :> ThinLeg(5)) @@ ("PE" :> Leg(6)) }

SeqsUpTo(S, n) == UNION {[1..m -> S] : m \in 0..n}

Range(f) == {f[i] : i \in DOMAIN f}

\* records.expiryDates lists: no date string twice
ExpiryLists ==
    {ed \in SeqsUpTo(DateStrs, MaxExpiries) :
        \A i, j \in 1..Len(ed) : i # j => ed[i] # ed[j]}

\* the payloads of the option-chain endpoint
Payloads ==
    { [records |-> [expiryDates |-> ed, data |-> d,
                    underlyingValue |-> 1500, timestamp |-> "05-Feb-2025 15:30:00"]] :
        ed \in ExpiryLists, d \in SeqsUpTo(Records, MaxRecords) }

(***************************************************************************)
(* build_option_chain.                                                     *)
(***************************************************************************)
Error(e) == [status |-> "error", error |-> e]

\* no call has returned or raised yet
NoResult == [status |-> "none"]

\* _filter_expiry_dates: parse every string, keep the dates on or after
\* today in the order of the list, and format them again
_filter_expiry_dates(expiry_dates_str, now) ==
    LET dates == [i \in 1..Len(expiry_dates_str) |-> ParseDate(expiry_dates_str[i])]
        kept == SelectSeq(dates, LAMBDA d : d >= now)
    IN [i \in 1..Len(kept) |-> FormatDate(kept[i])]

\* the expiry the selector resolves to, or the error indexing the list raises
ResolveExpiry(expiry, p, now) ==
    IF expiry = "latest" THEN
        IF Len(p.records.expiryDates) = 0 THEN Error("IndexError")
        ELSE [status |-> "ok", expiry |-> p.records.expiryDates[1]]
    ELSE IF expiry = "next" THEN
        LET expiry_dates == _filter_expiry_dates(p.records.expiryDates, now) IN
        IF Len(expiry_dates) > 1 THEN [status |-> "ok", expiry |-> expiry_dates[2]]
        ELSE IF Len(expiry_dates) = 0 THEN Error("IndexError")
        ELSE [status |-> "ok", expiry |-> expiry_dates[1]]
    ELSE [status |-> "ok", expiry |-> expiry]

CompactColumns ==
    {"CALLS_OI", "CALLS_Chng in OI", "CALLS_Volume", "CALLS_IV", "CALLS_LTP",
     "CALLS_Net Chng", "Strike Price", "PUTS_OI", "PUTS_Chng in OI",
     "PUTS_Volume", "PUTS_IV", "PUTS_LTP", "PUTS_Net Chng"}

FullColumns ==
    {"CALLS_Chart", "CALLS_OI", "CALLS_Chng in OI", "CALLS_Volume", "CALLS_IV",
     "CALLS_LTP", "CALLS_Net Chng", "CALLS_Bid Qty", "CALLS_Bid Price",
     "CALLS_Ask Price", "CALLS_Ask Qty", "Strike Price", "PUTS_Bid Qty",
     "PUTS_Bid Price", "PUTS_Ask Price", "PUTS_Ask Qty", "PUTS_Net Chng",
     "PUTS_LTP", "PUTS_IV", "PUTS_Volume", "PUTS_Chng in OI", "PUTS_OI",
     "PUTS_Chart"}

\* the columns list of the mode
ColumnsOf(oi_mode) == IF oi_mode = "compact" THEN CompactColumns ELSE FullColumns

\* the key of oi_row a leg field is assigned to:
\* f"{option_type}CALLS_OI" if option_type == "CE" else f"{option_type}PUTS_OI"
RowKey(option_type, suffix) ==
    IF option_type = "CE" THEN option_type \o "CALLS_" \o suffix
    ELSE option_type \o "PUTS_" \o suffix

\* the fields the try block reads for the mode, in order
FieldsOf(oi_mode) ==
    IF oi_mode = "full" THEN CompactFields \o DepthFields ELSE CompactFields

\* how many assignments of the try block run before a KeyError ends it
Assigned(item, option_type, oi_mode) ==
    IF option_type \notin DOMAIN item THEN 0
    ELSE LET fields == FieldsOf(oi_mode)
             missing == {i \in 1..Len(fields) : fields[i][2] \notin DOMAIN item[option_type]}
         IN IF missing = {} THEN Len(fields)
            ELSE (CHOOSE i \in missing : \A j \in missing : i <= j) - 1

\* oi_row after the try block of one option type
WriteLeg(oi_row, item, option_type, oi_mode) ==
    LET fields == FieldsOf(oi_mode)
        n == Assigned(item, option_type, oi_mode)
        keys == {RowKey(option_type, fields[i][1]) : i \in 1..n}
    IN [c \in DOMAIN oi_row \cup keys |->
          IF c \in keys
          THEN LET i == CHOOSE j \in 1..n : RowKey(option_type, fields[j][1]) = c
               IN item[option_type][fields[i][2]]
          ELSE oi_row[c]]

\* oi_row[key] = value
SetKey(oi_row, key, value) ==
    [c \in DOMAIN oi_row \cup {key} |-> IF c = key THEN value ELSE oi_row[c]]

\* oi_row after the body of the loop for one matching record
FillRow(oi_row, item, oi_mode) ==
    LET r0 == SetKey(oi_row, "Strike Price", item.strikePrice)
        r1 == WriteLeg(r0, item, "CE", oi_mode)
        r2 == WriteLeg(r1, item, "PE", oi_mode)
    IN IF oi_mode = "full"
       THEN SetKey(SetKey(r2, "CALLS_Chart", 0), "PUTS_Chart", 0)
       ELSE r2

\* a comparison of the dates the two strings spell
MatchesExpiryByDate(item, expiry) == ParseDate(item.expiryDate) = ParseDate(expiry)

\* if item["expiryDate"] == expiry
MatchesExpiry(item, expiry) == item.expiryDate = expiry

\* the for loop over payload["records"]["data"] from record i on: oi_row is
\* one dictionary, updated in place and appended to the table once per
\* matching record
RECURSIVE Materialize(_, _, _, _, _, _)
Materialize(data, i, expiry, oi_mode, oi_row, rows) ==
    IF i > Len(data) THEN rows
    ELSE IF MatchesExpiry(data[i], expiry)
         THEN LET r == FillRow(oi_row, data[i], oi_mode)
              IN Materialize(data, i + 1, expiry, oi_mode, r, Append(rows, r))
         ELSE Materialize(data, i + 1, expiry, oi_mode, oi_row, rows)

\* the initial oi_row: {col: 0 for col in columns if col != "Strike Price"}
InitialRow(columns) == [c \in columns \ {"Strike Price"} |-> 0]

\* pd.concat of the empty table with the rows: the columns are the union
\* of the declared columns and the keys of every row (a column missing from
\* a row's domain reads NaN in that row)
Table(columns, rows) ==
    [columns |-> columns \cup UNION {DOMAIN rows[i] : i \in 1..Len(rows)},
     rows |-> rows]

\* build_option_chain from the resolution of the expiry on
BuildFromPayload(expiry, oi_mode, p, now) ==
    LET res == ResolveExpiry(expiry, p, now) IN
    IF res.status = "error" THEN res
    ELSE IF oi_mode \notin {"compact", "full"} THEN Error("InvalidMode")
    ELSE LET columns == ColumnsOf(oi_mode)
             rows == Materialize(p.records.data, 1, res.expiry, oi_mode,
                                 InitialRow(columns), <<>>)
         IN [status |-> "ok", expiry |-> res.expiry,
             table |-> Table(columns, rows),
             underlying |-> p.records.underlyingValue,
             timestamp |-> p.records.timestamp]

Selectors == {"latest", "next"} \cup DateStrs
Modes == {"compact", "full", "brief"}

\* the callers of get_fno_symbols
Callers == 1..NumCallers

\* no get_fno_symbols call has started
FnoIdle ==
    /\ _fno_symbols = None
    /\ fno_pc = [c \in Callers |-> "idle"]
    /\ fno_ret = [c \in Callers |-> NoResult]
    /\ fno_fetches = 0
    /\ fno_assigns = 0

\* no calculate_black_scholes call has started
BsIdle ==
    /\ bs_pc = "idle"
    /\ bs_args = None
    /\ bs_result = NoResult

\* no calculate_beta call has started
BetaIdle ==
    /\ beta_pc = "idle"
    /\ beta_args = None
    /\ beta_df1 = <<>>
    /\ beta_df2 = <<>>
    /\ beta_pairs = <<>>
    /\ beta_result = NoResult

\* no indicator call has started
IndIdle ==
    /\ ind_pc = "idle"
    /\ ind_args = None
    /\ ind_range = <<>>
    /\ current_start = 0
    /\ all_data = <<>>
    /\ ind_fetches = <<>>
    /\ ind_result = NoResult

\* no get_pcr call has started
PcrIdle ==
    /\ pcr_pc = "idle"
    /\ pcr_args = None
    /\ pcr_payload = None
    /\ pcr_result = NoResult

\* no get_expiry_history call has started
EhIdle ==
    /\ eh_pc = "idle"
    /\ eh_args = None
    /\ eh_payload = None
    /\ eh_result = NoResult

\* no _fetch_historical_data call has started
HistIdle ==
    /\ hist_pc = "idle"
    /\ hist_args = None
    /\ hist_current_start = 0
    /\ hist_all_data = <<>>
    /\ hist_fetches = <<>>
    /\ hist_result = NoResult

\* get_index_list has not been called: the cache has no entry
IlIdle ==
    /\ il_cache = "miss"
    /\ il_pc = [c \in Callers |-> "idle"]
    /\ il_ret = [c \in Callers |-> NoResult]

\* a fresh NSE_Client in a working directory without data directories
DumpIdle ==
    /\ fs_dirs = {}
    /\ fs_dumps = {}
    /\ data_directory_path = None
    /\ dump_last = [op |-> "none"]

\* a fresh NSEFetcher: no session yet
SessIdle ==
    /\ session = 0
    /\ created = 0
    /\ closed = {}
    /\ sess_main = "constructed"
    /\ sess_pc = [c \in Callers |-> "idle"]
    /\ sess_ret = [c \in Callers |-> "none"]

\* no get_ichimoku_cloud call has started
IchIdle ==
    /\ ich_pc = "idle"
    /\ ich_data = <<>>
    /\ ich_result = <<>>

\* the state of the variables of the specifications after SpecInd
MoreIdle == PcrIdle /\ EhIdle /\ HistIdle /\ IlIdle /\ DumpIdle /\ SessIdle /\ IchIdle

\* the state of the later specifications' variables while they do not run
LaterIdle == FnoIdle /\ BsIdle /\ BetaIdle /\ IndIdle /\ MoreIdle

Init ==
    /\ pc = "idle"
    /\ args = None
    /\ eq_symbols = None
    /\ request = None
    /\ payload = None
    /\ today \in TodayChoices
    /\ result = NoResult
    /\ cal_pc = "idle"
    /\ days_arg = 0
    /\ holiday_dates = {}
    /\ past_date = 0
    /\ days = 0
    /\ cal_result = NoResult
    /\ LaterIdle

\* build_option_chain up to the await of get_option_chain
Call ==
    /\ pc = "idle"
    /\ \E symbol \in Symbols, expiry \in Selectors, oi_mode \in Modes :
        /\ args' = [symbol |-> symbol, expiry |-> expiry, oi_mode |-> oi_mode]
        /\ eq_symbols' = get_equity_symbols(eq_symbols)
        /\ IF ChainSymbolValid(symbol, eq_symbols)
           THEN /\ request' = get_option_chain_url(symbol)
                /\ pc' = "fetching"
                /\ result' = result
           ELSE /\ request' = request
                /\ pc' = "done"
                /\ result' = Error("InvalidSymbol")
    /\ UNCHANGED <<payload, today, calVars, laterVars>>

\* the fetch returns and build_option_chain runs to its end
FetchReturn ==
    /\ pc = "fetching"
    /\ \E p \in Payloads :
        /\ payload' = p
        /\ result' = BuildFromPayload(args.expiry, args.oi_mode, p, today)
    /\ pc' = "done"
    /\ UNCHANGED <<args, eq_symbols, request, today, calVars, laterVars>>

\* the fetch raises and the error propagates
FetchFails ==
    /\ pc = "fetching"
    /\ result' = Error("FetchError")
    /\ pc' = "done"
    /\ UNCHANGED <<args, eq_symbols, request, payload, today, calVars, laterVars>>

Next == Call \/ FetchReturn \/ FetchFails

Spec == Init /\ [][Next]_vars

(***************************************************************************)
(* Properties of build_option_chain.                                       *)
(***************************************************************************)
\* the call returned a table
Returned == pc = "done" /\ result.status = "ok"

\* the call raised e
Raised(e) == pc = "done" /\ result.status = "error" /\ result.error = e

\* the records of the payload whose expiryDate is the string e, in order
RecordsOf(e) == SelectSeq(payload.records.data, LAMBDA item : item.expiryDate = e)

\* the rows of the returned table
Rows == result.table.rows

\* the dates of the payload's expiry list that are on or after today
Candidates ==
    {d \in {ParseDate(payload.records.expiryDates[i]) :
               i \in 1..Len(payload.records.expiryDates)} : d >= today}

Earliest(S) == CHOOSE d \in S : \A e \in S : d <= e

\* C1: the number of rows of the returned table equals the number of
\* distinct strike prices among the records of the resolved expiry; two
\* records with the same strike and expiry give one row.
C1_RowsAreDistinctStrikes ==
    Returned =>
        Len(Rows) = Cardinality({RecordsOf(result.expiry)[i].strikePrice :
                                    i \in 1..Len(RecordsOf(result.expiry))})

\* C2: the column set of the returned table is exactly the 13 compact
\* columns in compact mode and exactly the 23 full-mode columns in full mode.
C2_ColumnsAreDocumented ==
    Returned =>
        /\ args.oi_mode = "compact" => result.table.columns = CompactColumns
        /\ args.oi_mode = "full" => result.table.columns = FullColumns

\* the six documented columns of a leg and the leg fields they show
LegColumns(side) == {<<side \o CompactFields[i][1], CompactFields[i][2]>> : i \in 1..6}

\* row i shows the leg of its record in the documented columns of side
ShowsLeg(i, option_type, side) ==
    LET item == RecordsOf(result.expiry)[i] IN
    option_type \in DOMAIN item =>
        \A cf \in LegColumns(side) :
            /\ cf[1] \in DOMAIN Rows[i]
            /\ Rows[i][cf[1]] = item[option_type][cf[2]]

\* C3: every row built from a record with a CE (PE) leg has the leg's
\* openInterest, changeinOpenInterest, totalTradedVolume, impliedVolatility,
\* lastPrice and change in its CALLS_ (PUTS_) columns.
C3_RowShowsItsLegs ==
    Returned =>
        /\ Len(Rows) = Len(RecordsOf(result.expiry))
        /\ \A i \in 1..Len(Rows) :
              ShowsLeg(i, "CE", "CALLS_") /\ ShowsLeg(i, "PE", "PUTS_")

\* the cells of a row that hold data of one side of the chain
SideCells(row, side) ==
    {c \in DOMAIN row :
        \E f \in Range(CompactFields \o DepthFields) :
            c \in {side \o "S_" \o f[1], RowKey(IF side = "CALL" THEN "CE" ELSE "PE", f[1])}}

\* C4: a row built from a record without the CE (PE) key has zero in every
\* call (put) field, whatever records came before it: nothing of an earlier
\* record's leg is carried over.
C4_MissingLegIsZero ==
    Returned =>
        \A i \in 1..Len(Rows) :
            LET item == RecordsOf(result.expiry)[i] IN
            /\ "CE" \notin DOMAIN item => \A c \in SideCells(Rows[i], "CALL") : Rows[i][c] = 0
            /\ "PE" \notin DOMAIN item => \A c \in SideCells(Rows[i], "PUT") : Rows[i][c] = 0

\* C5: 'latest' resolves to the earliest listed expiry on or after today,
\* never to a listed expiry before today, and the rows are those of the
\* records of that expiry.
C5_LatestIsEarliestUpcoming ==
    (Returned /\ args.expiry = "latest" /\ Candidates # {}) =>
        /\ ParseDate(result.expiry) >= today
        /\ ParseDate(result.expiry) = Earliest(Candidates)
        /\ Len(Rows) = Len(RecordsOf(result.expiry))

\* C6: 'next' resolves to the second-earliest listed expiry on or after
\* today, in date order whatever the order of the list, and to the earliest
\* one when there is only one; the rows are those of that expiry.
C6_NextIsSecondUpcoming ==
    (Returned /\ args.expiry = "next" /\ Candidates # {}) =>
        /\ ParseDate(result.expiry) =
              IF Cardinality(Candidates) > 1
              THEN Earliest(Candidates \ {Earliest(Candidates)})
              ELSE Earliest(Candidates)
        /\ Len(Rows) = Len(RecordsOf(result.expiry))

\* the payload arrived: the call got past the symbol check and the fetch
Delivered == pc = "done" /\ ~Raised("InvalidSymbol") /\ ~Raised("FetchError")

\* C7: with an explicit expiry that is the expiryDate of no record of the
\* payload, listed in expiryDates or not, the call raises nothing and
\* returns a table without rows, the underlying value and the timestamp.
C7_UnmatchedExpiryIsEmpty ==
    (/\ Delivered
     /\ args.expiry \in DateStrs
     /\ args.oi_mode \in {"compact", "full"}
     /\ Len(RecordsOf(args.expiry)) = 0)
    => /\ result.status = "ok"
       /\ Rows = <<>>
       /\ result.underlying = payload.records.underlyingValue
       /\ result.timestamp = payload.records.timestamp

\* C7 happens: an explicit expiry that the payload lists but no record has,
\* in a payload that has records
C7_Witness ==
    /\ Returned
    /\ args.expiry = "30-Jan-2025"
    /\ \E i \in 1..Len(payload.records.expiryDates) : payload.records.expiryDates[i] = args.expiry
    /\ Len(payload.records.data) = MaxRecords
    /\ Rows = <<>>

\* C8: the invalid-symbol error is raised exactly when the symbol is in
\* neither the equity nor the F&O symbol list; an F&O symbol such as NIFTY
\* passes the check.
C8_InvalidSymbolIffUnknown ==
    pc # "idle" =>
        (Raised("InvalidSymbol") <=> Upper(args.symbol) \notin EquityList \cup FnoList)

\* C9: with a valid symbol and an oi_mode that is neither 'full' nor
\* 'compact' the call raises the invalid-mode error, for every selector and
\* every payload, also one without an expiry on or after today.
C9_BadModeIsInvalidMode ==
    (/\ Delivered
     /\ Len(payload.records.expiryDates) > 0
     /\ args.oi_mode \notin {"compact", "full"})
    => Raised("InvalidMode")


\* the records of the resolved expiry that have a call or a put leg
RecordsWithLeg ==
    SelectSeq(RecordsOf(result.expiry),
              LAMBDA item : "CE" \in DOMAIN item \/ "PE" \in DOMAIN item)

\* C19: every row of the returned table comes from a record with a CE or a
\* PE leg: the table has as many rows as the resolved expiry has such
\* records, and a record of that expiry with neither leg gives no row.
C19_RowsHaveALeg ==
    Returned => Len(Rows) = Len(RecordsWithLeg)

\* the list _filter_expiry_dates returns for the payload's expiry list
FilteredExpiries == _filter_expiry_dates(payload.records.expiryDates, today)

\* C20: whatever the order of the input list, _filter_expiry_dates returns
\* exactly the input dates on or after today, in ascending date order.
C20_FilterSortsAscending ==
    (Delivered /\ args.expiry = "next") =>
        /\ {ParseDate(FilteredExpiries[i]) : i \in 1..Len(FilteredExpiries)} = Candidates
        /\ \A i, j \in 1..Len(FilteredExpiries) :
              i < j => ParseDate(FilteredExpiries[i]) <= ParseDate(FilteredExpiries[j])


(***************************************************************************)
(* _get_past_trading_date.                                                 *)
(***************************************************************************)
\* the lengths of the months of a year
MonthDays(y) ==
    <<31, IF y % 4 = 0 THEN 29 ELSE 28, 31, 30, 31, 30, 31, 31, 30, 31, 30, 31>>

\* the day, month and year of the n-th day counted from the first day of
\* month m of year y
RECURSIVE FieldsFrom(_, _, _)
FieldsFrom(y, m, n) ==
    IF n > MonthDays(y)[m] THEN FieldsFrom(y, m + 1, n - MonthDays(y)[m])
    ELSE <<n, m, y>>

\* the days of year y before its month m
RECURSIVE DaysBefore(_, _)
DaysBefore(y, m) == IF m = 1 THEN 0 ELSE DaysBefore(y, m - 1) + MonthDays(y)[m - 1]

\* the day, month and year a date is written with, by strftime("%d-%m-%Y")
\* and in the tradingDate of a holiday record; the days of 2024 have the
\* ordinals -365..0
DateFields(d) == IF d >= 1 THEN FieldsFrom(2025, 1, d) ELSE FieldsFrom(2024, 1, d + 366)

\* strptime of such a spelling, as a day ordinal
Ordinal(f) == DaysBefore(f[3], f[2]) + f[1] - (IF f[3] = 2024 THEN 366 ELSE 0)

\* date.weekday(): Monday is 0; 01-Jan-2025 is a Wednesday
Weekday(d) == (d + 1) % 7

\* the dates on which the model lets the calendar run: Monday 10-Feb-2025
\* to Sunday 16-Feb-2025
CalendarTodays == 41..47

\* the 'FO' lists of the holiday payload: holidays among the days before today
HolidayLists(now) ==
    {{[tradingDate |-> DateFields(d)] : d \in H} : H \in SUBSET ((now - HolidaySpan)..(now - 1))}

\* the while loop without its holiday test: only weekends are skipped
RECURSIVE WalkBackWeekendsOnly(_, _, _)
WalkBackWeekendsOnly(date, n, holidays) ==
    IF n > 0
    THEN IF Weekday(date - 1) >= 5
         THEN WalkBackWeekendsOnly(date - 1, n, holidays)
         ELSE WalkBackWeekendsOnly(date - 1, n - 1, holidays)
    ELSE date

\* the while loop: step back one day, skip weekends and holidays, count
\* the others
RECURSIVE WalkBack(_, _, _)
WalkBack(date, n, holidays) ==
    IF n > 0
    THEN IF Weekday(date - 1) >= 5 \/ (date - 1) \in holidays
         THEN WalkBack(date - 1, n, holidays)
         ELSE WalkBack(date - 1, n - 1, holidays)
    ELSE date

\* where the walk starts: past_date = end_date - timedelta(days=days)
StartDate(now, n) == now - n

InitCalendar ==
    /\ pc = "idle"
    /\ args = None
    /\ eq_symbols = None
    /\ request = None
    /\ payload = None
    /\ today \in CalendarTodays
    /\ result = NoResult
    /\ cal_pc = "idle"
    /\ days_arg = 0
    /\ holiday_dates = {}
    /\ past_date = 0
    /\ days = 0
    /\ cal_result = NoResult
    /\ LaterIdle

\* _get_past_trading_date up to the await of get_holidays
PastDateCall ==
    /\ cal_pc = "idle"
    /\ \E n \in 0..MaxDays :
        /\ days_arg' = n
        /\ days' = n
        /\ past_date' = StartDate(today, n)
    /\ cal_pc' = "holidays"
    /\ UNCHANGED <<chainVars, laterVars, today, holiday_dates, cal_result>>

\* the holidays arrive and the call runs to its return
HolidaysReturn ==
    /\ cal_pc = "holidays"
    /\ \E fo \in HolidayLists(today) :
        LET parsed == {Ordinal(h.tradingDate) : h \in fo}
            final == WalkBack(past_date, days, parsed)
        IN /\ holiday_dates' = parsed
           /\ past_date' = final
           /\ cal_result' = [status |-> "ok", date |-> DateFields(final)]
    /\ days' = 0
    /\ cal_pc' = "done"
    /\ UNCHANGED <<chainVars, laterVars, today, days_arg>>

\* get_holidays raises and the error propagates
HolidaysFail ==
    /\ cal_pc = "holidays"
    /\ cal_result' = Error("FetchError")
    /\ cal_pc' = "done"
    /\ UNCHANGED <<chainVars, laterVars, today, days_arg, holiday_dates, past_date, days>>

NextCalendar == PastDateCall \/ HolidaysReturn \/ HolidaysFail

SpecCalendar == InitCalendar /\ [][NextCalendar]_vars

(***************************************************************************)
(* Properties of _get_past_trading_date.                                   *)
(***************************************************************************)
\* a trading day: neither Saturday, Sunday nor a holiday
TradingDay(d) == Weekday(d) < 5 /\ d \notin holiday_dates

\* the trading days from d up to yesterday
TradingDaysSince(d) == {x \in d..(today - 1) : TradingDay(x)}

\* C10: for N >= 1 the result is the N-th trading day strictly before
\* today: a trading day with exactly N trading days from it up to yesterday.
C10_NthTradingDayBeforeToday ==
    (cal_pc = "done" /\ cal_result.status = "ok" /\ days_arg >= 1) =>
        LET d == Ordinal(cal_result.date) IN
        /\ d < today
        /\ TradingDay(d)
        /\ Cardinality(TradingDaysSince(d)) = days_arg

\* the largest member of a non-empty set of days
Latest(S) == CHOOSE d \in S : \A e \in S : e <= d

\* the two weekdays (Monday to Friday) immediately preceding a day
PrecedingWeekdays(now) ==
    LET W == {d \in (now - 7)..(now - 1) : Weekday(d) < 5}
        first == Latest(W)
    IN {first, Latest(W \ {first})}

\* C11: _get_past_trading_date(1), when the two weekdays immediately
\* preceding today are both holidays, returns the nearest day before today
\* that is a weekday and not a holiday (no trading day lies between it and
\* today), on whichever day of the week today falls.
C11_SkipsTwoHolidays ==
    (/\ cal_pc = "done"
     /\ cal_result.status = "ok"
     /\ days_arg = 1
     /\ PrecedingWeekdays(today) \subseteq holiday_dates)
    => LET d == Ordinal(cal_result.date) IN
       /\ d < today
       /\ TradingDay(d)
       /\ \A x \in (d + 1)..(today - 1) : ~TradingDay(x)

\* today is Wednesday 12-Feb-2025, Monday and Tuesday are the only
\* holidays, and the call returned Friday 07-Feb-2025
C11_Witness ==
    /\ cal_pc = "done"
    /\ cal_result.status = "ok"
    /\ days_arg = 1
    /\ Weekday(today) = 2
    /\ holiday_dates = PrecedingWeekdays(today)
    /\ cal_result.date = DateFields(today - 5)


(***************************************************************************)
(* get_fno_symbols called concurrently on one NSEIndia instance.           *)
(***************************************************************************)
\* no build_option_chain call has started
ChainIdle ==
    /\ pc = "idle"
    /\ args = None
    /\ eq_symbols = None
    /\ request = None
    /\ payload = None
    /\ result = NoResult

\* no _get_past_trading_date call has started
CalIdle ==
    /\ cal_pc = "idle"
    /\ days_arg = 0
    /\ holiday_dates = {}
    /\ past_date = 0
    /\ days = 0
    /\ cal_result = NoResult

\* the payloads of the F&O endpoint: lists of stocks, and one without 'data'
FnoPayloads ==
    { [data |-> <<>>],
      [data |-> <<[symbol |-> "INFY"]>>],
      [data |-> <<[symbol |-> "INFY"], [symbol |-> "M&M"]>>],
      [message |-> "no data"] }

\* the list the method builds from a payload
FnoSymbolsOf(fno_data) ==
    <<"NIFTY", "NIFTYIT", "BANKNIFTY">> \o
        [i \in 1..Len(fno_data.data) |-> fno_data.data[i].symbol]

InitFno ==
    /\ ChainIdle
    /\ CalIdle
    /\ today \in TodayChoices
    /\ LaterIdle

\* a caller runs up to its first suspension: it tests _fno_symbols and
\* either awaits the fetch or returns the memoized list
FnoCall ==
    \E c \in Callers :
        /\ fno_pc[c] = "idle"
        /\ IF _fno_symbols = None
           THEN /\ fno_fetches' = fno_fetches + 1
                /\ fno_pc' = [fno_pc EXCEPT ![c] = "fetching"]
                /\ fno_ret' = fno_ret
           ELSE /\ fno_fetches' = fno_fetches
                /\ fno_pc' = [fno_pc EXCEPT ![c] = "done"]
                /\ fno_ret' = [fno_ret EXCEPT ![c] = [status |-> "ok", list |-> _fno_symbols]]
        /\ UNCHANGED <<chainVars, calVars, moreVars, bsVars, betaVars, indVars, today, _fno_symbols, fno_assigns>>

\* a caller's fetch returns: it assigns _fno_symbols and returns it, or
\* raises KeyError on a payload without 'data'
FnoFetchReturn ==
    \E c \in Callers :
        /\ fno_pc[c] = "fetching"
        /\ \E fno_data \in FnoPayloads :
            IF "data" \in DOMAIN fno_data
            THEN /\ _fno_symbols' = FnoSymbolsOf(fno_data)
                 /\ fno_assigns' = fno_assigns + 1
                 /\ fno_ret' = [fno_ret EXCEPT ![c] =
                                   [status |-> "ok", list |-> FnoSymbolsOf(fno_data)]]
            ELSE /\ fno_ret' = [fno_ret EXCEPT ![c] = Error("KeyError")]
                 /\ UNCHANGED <<_fno_symbols, fno_assigns>>
        /\ fno_pc' = [fno_pc EXCEPT ![c] = "done"]
        /\ UNCHANGED <<chainVars, calVars, moreVars, bsVars, betaVars, indVars, today, fno_fetches>>

\* a caller's fetch raises and the error propagates
FnoFetchFails ==
    \E c \in Callers :
        /\ fno_pc[c] = "fetching"
        /\ fno_ret' = [fno_ret EXCEPT ![c] = Error("FetchError")]
        /\ fno_pc' = [fno_pc EXCEPT ![c] = "done"]
        /\ UNCHANGED <<chainVars, calVars, moreVars, bsVars, betaVars, indVars, today, _fno_symbols, fno_fetches, fno_assigns>>

NextFno == FnoCall \/ FnoFetchReturn \/ FnoFetchFails

SpecFno == InitFno /\ [][NextFno]_vars

\* C16: whatever the interleaving of the concurrent get_fno_symbols calls,
\* the F&O list is fetched at most once and _fno_symbols is assigned at
\* most once.
C16_FetchedAndAssignedOnce ==
    /\ fno_fetches <= 1
    /\ fno_assigns <= 1


(***************************************************************************)
(* calculate_black_scholes.                                                *)
(***************************************************************************)
\* the inputs the model calls it with: spot, strike, days to expiry,
\* volatility in percent (the empty tuple stands for None: use India VIX)
\* and trading days in a year
Spots == {0 - 100, 0, 100, 110}
Strikes == {0 - 100, 0, 100}
ExpiryDays == {0 - 7, 0, 7}
Sigmas == {<<>>, <<0>>, <<20>>}
YearDays == {252, 365}

\* the allIndices payloads get_india_vix reads: with the INDIA VIX entry
\* (last 15 or 0) and without it
VixPayloads ==
    { [data |-> <<[index |-> "NIFTY 50", last |-> 23000], [index |-> "INDIA VIX", last |-> 15]>>],
      [data |-> <<[index |-> "INDIA VIX", last |-> 0]>>],
      [data |-> <<[index |-> "NIFTY 50", last |-> 23000]>>] }

\* get_india_vix on a payload: the 'last' of the first INDIA VIX entry, or
\* ValueError when there is none
get_india_vix(p) ==
    LET hits == SelectSeq(p.data, LAMBDA index_data : index_data.index = "INDIA VIX")
    IN IF Len(hits) > 0 THEN [status |-> "ok", last |-> hits[1].last]
       ELSE Error("ValueError")

\* the body once sigma is known.  t becomes t / td; d1 takes
\* math.log(S0 / X), then divides by sigma * math.sqrt(t).  A float division
\* by zero raises ZeroDivisionError; math.log of a value that is not
\* positive and math.sqrt of a negative value raise ValueError.  With d1
\* computed, nothing in the rest of the body can raise: its divisors are
\* 2 * sqrt(t), S0 * sigma * sqrt(t) and td.  The ten numbers it returns
\* are not computed here.
BlackScholes(S0, X, t, sigma, td) ==
    IF td = 0 THEN Error("ZeroDivisionError")
    ELSE IF X = 0 THEN Error("ZeroDivisionError")
    ELSE IF S0 * X <= 0 THEN Error("ValueError")
    ELSE IF t * td < 0 THEN Error("ValueError")
    ELSE IF sigma = 0 \/ t = 0 THEN Error("ZeroDivisionError")
    ELSE [status |-> "ok", values |-> 10]

InitBs ==
    /\ ChainIdle
    /\ CalIdle
    /\ today \in TodayChoices
    /\ LaterIdle

\* the call up to the await of get_india_vix, or to its end when sigma is
\* given
BsCall ==
    /\ bs_pc = "idle"
    /\ \E S0 \in Spots, X \in Strikes, t \in ExpiryDays, sigma \in Sigmas, td \in YearDays :
        /\ bs_args' = [S0 |-> S0, X |-> X, t |-> t, sigma |-> sigma, td |-> td]
        /\ IF sigma = <<>>
           THEN /\ bs_pc' = "vix"
                /\ bs_result' = bs_result
           ELSE /\ bs_pc' = "done"
                /\ bs_result' = BlackScholes(S0, X, t, sigma[1], td)
    /\ UNCHANGED <<chainVars, calVars, moreVars, fnoVars, betaVars, indVars, today>>

\* the allIndices payload arrives and the call runs to its end
BsVixReturn ==
    /\ bs_pc = "vix"
    /\ \E p \in VixPayloads :
        LET vix == get_india_vix(p) IN
        bs_result' = IF vix.status = "ok"
                     THEN BlackScholes(bs_args.S0, bs_args.X, bs_args.t, vix.last, bs_args.td)
                     ELSE vix
    /\ bs_pc' = "done"
    /\ UNCHANGED <<chainVars, calVars, moreVars, fnoVars, betaVars, indVars, today, bs_args>>

\* the allIndices fetch raises and the error propagates
BsVixFails ==
    /\ bs_pc = "vix"
    /\ bs_result' = Error("FetchError")
    /\ bs_pc' = "done"
    /\ UNCHANGED <<chainVars, calVars, moreVars, fnoVars, betaVars, indVars, today, bs_args>>

NextBs == BsCall \/ BsVixReturn \/ BsVixFails

SpecBs == InitBs /\ [][NextBs]_vars

\* C17: the call ends in an error, and returns no tuple of numbers,
\* whenever the strike is <= 0, the spot is <= 0 or the time to expiry is
\* <= 0, spot and strike both negative included.
C17_NonPositiveInputsRaise ==
    (/\ bs_pc = "done"
     /\ (bs_args.X <= 0 \/ bs_args.S0 <= 0 \/ bs_args.t <= 0))
    => bs_result.status = "error"


(***************************************************************************)
(* calculate_beta.                                                         *)
(***************************************************************************)
\* the symbols the model calls it with: an equity, an index name and an
\* unknown symbol
BetaSymbols == {"infy", "NIFTY 50", "ZZZ"}

\* "NIFTY" in symbol, for these symbols
HasNifty(symbol) == symbol = "NIFTY 50"

\* the days arguments: two days and the default
BetaDayArgs == {2, 365}

\* how the closing prices of a fetched history run
PricePatterns == {"flat", "rising", "zigzag"}

\* the closing price of a day under a pattern
ClosePrice(pattern, d) ==
    IF pattern = "flat" THEN 100
    ELSE IF pattern = "rising" THEN 10 * d
    ELSE 100 + 5 * (d % 2)

\* the members of a set of days in ascending order
RECURSIVE Ascending(_)
Ascending(S) ==
    IF S = {} THEN <<>>
    ELSE LET m == Earliest(S) IN <<m>> \o Ascending(S \ {m})

\* the frames a history fetch for the days from now - days to now can
\* return: one row a day, in date order, for some of the days
BetaHistories(now, n) ==
    LET window == {d \in (now - n)..now : d > now - MaxBetaDays}
    IN { [i \in 1..Cardinality(D) |->
            [date |-> Ascending(D)[i], close |-> ClosePrice(pattern, Ascending(D)[i])]] :
         D \in SUBSET window, pattern \in PricePatterns }

\* pct_change() of the closing prices, in units of 1/1000, and .iloc[1:]:
\* the first row, whose change is undefined, is dropped
DailyChanges(df) ==
    [i \in 1..(Len(df) - 1) |->
        [date |-> df[i + 1].date,
         daily_change |-> ((df[i + 1].close - df[i].close) * 1000) \div df[i].close]]

\* _get_beta_df once the history is there: a frame without rows has no
\* columns and selecting the price column raises KeyError
BetaFrame(df) ==
    IF Len(df) = 0 THEN Error("KeyError")
    ELSE [status |-> "ok", frame |-> DailyChanges(df)]

\* the column each frame carries its dates in
DateColumn(symbol) == IF HasNifty(symbol) THEN "HistoricalDate" ELSE "CH_TIMESTAMP"

\* the column pd.merge looks the dates of the right frame up in
RightOn(symbol, symbol2) ==
    IF HasNifty(symbol) THEN "HistoricalDate"
    ELSE IF HasNifty(symbol2) THEN "HistoricalDate" ELSE "CH_TIMESTAMP"

\* pd.merge(how="inner"): the rows of df1, in order, with the row of df2 of
\* the same date
InnerMerge(df1, df2) ==
    LET hit(i) == {j \in 1..Len(df2) : df2[j].date = df1[i].date}
        kept == SelectSeq([i \in 1..Len(df1) |-> i], LAMBDA i : hit(i) # {})
    IN [k \in 1..Len(kept) |->
           LET j == CHOOSE j \in hit(kept[k]) : TRUE IN
           [date_x |-> df1[kept[k]].date, a |-> df1[kept[k]].daily_change,
            date_y |-> df2[j].date, b |-> df2[j].daily_change]]

\* zip(x, y) of the two daily_change columns taken as they are
Zip(df1, df2) ==
    [i \in 1..(IF Len(df1) <= Len(df2) THEN Len(df1) ELSE Len(df2)) |->
        [date_x |-> df1[i].date, a |-> df1[i].daily_change,
         date_y |-> df2[i].date, b |-> df2[i].daily_change]]

\* the pairs the sums run over: merged on the date when the frames differ
\* in length (KeyError when the right frame lacks the merge column),
\* position by position when they have the same length
BetaPairs(symbol, symbol2, df1, df2) ==
    IF Len(df1) # Len(df2)
    THEN IF RightOn(symbol, symbol2) # DateColumn(symbol2) THEN Error("KeyError")
         ELSE [status |-> "ok", pairs |-> InnerMerge(df1, df2)]
    ELSE [status |-> "ok", pairs |-> Zip(df1, df2)]

\* sum() of the numbers of a list from its i-th on
RECURSIVE SumOver(_, _)
SumOver(q, i) == IF i > Len(q) THEN 0 ELSE q[i] + SumOver(q, i + 1)

\* the means, covariance and variance over the pairs.  With n pairs,
\* n * a - sum(x) is n times a's distance from mean_x, so covariance and
\* variance are the two sums below over n^3, and beta is their quotient,
\* rounded to three decimals (kept in thousandths).  sum(x) / len(x)
\* raises ZeroDivisionError when there is no pair.
BetaOf(q) ==
    LET n == Len(q)
        x == [i \in 1..n |-> q[i].a]
        y == [i \in 1..n |-> q[i].b]
        sx == SumOver(x, 1)
        sy == SumOver(y, 1)
        covariance == SumOver([i \in 1..n |-> (n * x[i] - sx) * (n * y[i] - sy)], 1)
        variance == SumOver([i \in 1..n |-> (n * y[i] - sy) * (n * y[i] - sy)], 1)
    IN IF n = 0 THEN Error("ZeroDivisionError")
       ELSE IF variance = 0 THEN [status |-> "ok", inf |-> TRUE, beta |-> 0]
       ELSE [status |-> "ok", inf |-> FALSE,
             beta |-> (1000 * covariance + variance \div 2) \div variance]

InitBeta ==
    /\ ChainIdle
    /\ CalIdle
    /\ today \in TodayChoices
    /\ LaterIdle

\* _get_beta_df up to its await: an index name goes to get_index_history,
\* any other symbol is first looked up in the equity list (the list is the
\* same whether memoized or read now)
BetaEquityChecked(symbol, memo) == HasNifty(symbol) \/ is_valid_symbol(symbol, FALSE, memo)

\* calculate_beta up to the await of the first history
BetaCall ==
    /\ beta_pc = "idle"
    /\ \E symbol \in BetaSymbols, symbol2 \in BetaSymbols, n \in BetaDayArgs :
        /\ beta_args' = [symbol |-> symbol, days |-> n, symbol2 |-> symbol2]
        /\ IF BetaEquityChecked(symbol, eq_symbols)
           THEN /\ beta_pc' = "first"
                /\ beta_result' = beta_result
           ELSE /\ beta_pc' = "done"
                /\ beta_result' = Error("ValueError")
    /\ UNCHANGED <<chainVars, calVars, moreVars, fnoVars, bsVars, indVars,
                   today, beta_df1, beta_df2, beta_pairs>>

\* the first history arrives: df1 is built and the call runs up to the
\* await of the second history
BetaFirstReturn ==
    /\ beta_pc = "first"
    /\ \E df \in BetaHistories(today, beta_args.days) :
        LET first == BetaFrame(df) IN
        IF first.status = "error"
        THEN /\ beta_result' = first
             /\ beta_pc' = "done"
             /\ beta_df1' = beta_df1
        ELSE /\ beta_df1' = first.frame
             /\ IF BetaEquityChecked(beta_args.symbol2, eq_symbols)
                THEN /\ beta_pc' = "second"
                     /\ beta_result' = beta_result
                ELSE /\ beta_pc' = "done"
                     /\ beta_result' = Error("ValueError")
    /\ UNCHANGED <<chainVars, calVars, moreVars, fnoVars, bsVars, indVars,
                   today, beta_args, beta_df2, beta_pairs>>

\* the second history arrives and the call runs to its end
BetaSecondReturn ==
    /\ beta_pc = "second"
    /\ \E df \in BetaHistories(today, beta_args.days) :
        LET second == BetaFrame(df) IN
        IF second.status = "error"
        THEN /\ beta_result' = second
             /\ UNCHANGED <<beta_df2, beta_pairs>>
        ELSE LET zipped == BetaPairs(beta_args.symbol, beta_args.symbol2,
                                     beta_df1, second.frame) IN
             /\ beta_df2' = second.frame
             /\ IF zipped.status = "error"
                THEN /\ beta_result' = zipped
                     /\ beta_pairs' = beta_pairs
                ELSE /\ beta_pairs' = zipped.pairs
                     /\ beta_result' = BetaOf(zipped.pairs)
    /\ beta_pc' = "done"
    /\ UNCHANGED <<chainVars, calVars, moreVars, fnoVars, bsVars, indVars, today, beta_args, beta_df1>>

\* the awaited index-history fetch raises and the error propagates (an
\* equity-history fetch swallows its errors and gives a frame without rows)
BetaFetchFails ==
    /\ \/ beta_pc = "first" /\ HasNifty(beta_args.symbol)
       \/ beta_pc = "second" /\ HasNifty(beta_args.symbol2)
    /\ beta_result' = Error("FetchError")
    /\ beta_pc' = "done"
    /\ UNCHANGED <<chainVars, calVars, moreVars, fnoVars, bsVars, indVars, today,
                   beta_args, beta_df1, beta_df2, beta_pairs>>

NextBeta == BetaCall \/ BetaFirstReturn \/ BetaSecondReturn \/ BetaFetchFails

SpecBeta == InitBeta /\ [][NextBeta]_vars

\* the benchmark's frame is there and its daily changes are all the same
ConstantBenchmark ==
    /\ Len(beta_df2) > 0
    /\ \A i, j \in 1..Len(beta_df2) : beta_df2[i].daily_change = beta_df2[j].daily_change

\* C14: when the benchmark's return series has zero variance the call
\* returns +Infinity: it neither raises nor returns anything else, whatever
\* the two fetched series of returns are, two series without a common date
\* included.
C14_ZeroVarianceIsInfinity ==
    (beta_pc = "done" /\ Len(beta_df1) > 0 /\ ConstantBenchmark) =>
        /\ beta_result.status = "ok"
        /\ beta_result.inf

\* the dates of a frame
DatesOf(df) == {df[i].date : i \in 1..Len(df)}

\* C15: when the two fetched series differ in their dates, with the same
\* number of rows or not, every pair of returns that enters the covariance
\* sum has both returns from the same date.
C15_PairsShareTheDate ==
    (/\ beta_pc = "done"
     /\ Len(beta_df2) > 0
     /\ DatesOf(beta_df1) # DatesOf(beta_df2))
    => \A i \in 1..Len(beta_pairs) : beta_pairs[i].date_x = beta_pairs[i].date_y


(***************************************************************************)
(* The technical indicators over get_equity_history.                       *)
(***************************************************************************)
\* the indicator methods
Indicators ==
    {"get_simple_moving_average_absolute", "get_simple_moving_average",
     "get_exponential_moving_average", "get_double_exponential_moving_average",
     "get_triple_exponential_moving_average", "get_relative_strength_index",
     "get_moving_average_convergence_divergence", "get_stochastic_oscillator",
     "get_bollinger_bands", "get_average_directional_index",
     "get_commodity_channel_index", "get_ichimoku_cloud",
     "get_fibonacci_retracement", "get_support_and_resistance_levels"}

\* the methods with a days parameter
HasDaysArg(f) ==
    f \in {"get_simple_moving_average", "get_exponential_moving_average",
           "get_double_exponential_moving_average",
           "get_triple_exponential_moving_average", "get_relative_strength_index",
           "get_average_directional_index", "get_commodity_channel_index",
           "get_support_and_resistance_levels"}

\* the days each method passes to _get_past_trading_date
PastDays(f, n) ==
    CASE f = "get_commodity_channel_index" -> 2 * n
      [] f = "get_moving_average_convergence_divergence" -> 50
      [] f = "get_stochastic_oscillator" -> 14
      [] f = "get_bollinger_bands" -> 20
      [] f = "get_ichimoku_cloud" -> 52
      [] f = "get_fibonacci_retracement" -> 50
      [] OTHER -> n

\* how many numbers the value in each except clause has: 1 stands for the
\* plain 0.0, larger sizes for the tuples of zeros
SentinelSize(f, get_signal) ==
    CASE f = "get_moving_average_convergence_divergence" -> IF get_signal THEN 2 ELSE 1
      [] f = "get_bollinger_bands" -> 3
      [] f = "get_ichimoku_cloud" -> 5
      [] f = "get_fibonacci_retracement" -> 5
      [] f = "get_support_and_resistance_levels" -> 2
      [] OTHER -> 1

\* a float: a number (kept in units of 1/10000), NaN, or a number the model
\* does not compute
Number(x) == [is |-> "number", x |-> x]
NaN == [is |-> "nan", x |-> 0]
SomeNumber == [is |-> "some", x |-> 0]

\* the except clause's value for MACD when it forgets get_signal
SentinelOfOne(f, get_signal) == <<Number(0)>>

\* the value each except clause returns
Sentinel(f, get_signal) == [i \in 1..SentinelSize(f, get_signal) |-> Number(0)]

\* try: ... except Exception: return the sentinel
Caught(f, get_signal, outcome) ==
    IF outcome.status = "error"
    THEN [status |-> "ok", value |-> Sentinel(f, get_signal)]
    ELSE outcome

\* the symbols the model calls the indicators with
IndSymbols == {"infy", "ZZZ"}

\* the days arguments the model passes: none where the method takes none;
\* for get_simple_moving_average_absolute, how many days before today its
\* start_date lies
DayArgs(f) ==
    IF f = "get_simple_moving_average_absolute" THEN 0..MaxDays
    ELSE IF HasDaysArg(f) THEN 1..MaxDays
    ELSE {0}

\* the members of a set of days, the latest first
RECURSIVE NewestFirst(_)
NewestFirst(S) ==
    IF S = {} THEN <<>>
    ELSE LET m == Latest(S) IN <<m>> \o NewestFirst(S \ {m})

\* a chunk end one day further on
ChunkEndPlusOne(start, end, chunk_size) ==
    IF start + chunk_size <= end THEN start + chunk_size ELSE end

\* current_end = min(current_start + timedelta(days=chunk_size - 1), end_date)
ChunkEnd(start, end, chunk_size) ==
    IF start + chunk_size - 1 <= end THEN start + chunk_size - 1 ELSE end

\* the rows the endpoint has for a chunk: the k latest weekdays of the
\* chunk (fewer if it has fewer), the latest first
ChunkRows(start, end, k) ==
    LET all == NewestFirst({d \in start..end : Weekday(d) < 5})
    IN [i \in 1..(IF k <= Len(all) THEN k ELSE Len(all)) |->
           [CH_TIMESTAMP |-> all[i], CH_CLOSING_PRICE |-> ClosePrice("zigzag", all[i])]]

\* the JSON with 'data' a chunk's fetch can return: up to MaxRows rows
ChunkResponses(start, end) ==
    {[data |-> ChunkRows(start, end, k)] : k \in 0..MaxRows}

\* iloc[::-1]
Reverse(q) == [i \in 1..Len(q) |-> q[Len(q) + 1 - i]]

\* rolling(window).mean().iloc[-1] of the closing prices, rounded to four
\* decimals: NaN when the frame has fewer rows than the window
RollingMeanLast(data, window) ==
    IF Len(data) < window THEN NaN
    ELSE LET last == SubSeq(data, Len(data) - window + 1, Len(data))
             total == SumOver([i \in 1..window |-> last[i].CH_CLOSING_PRICE], 1)
         IN Number((2 * 10000 * total + window) \div (2 * window))

\* the body of an indicator after the history arrived.  A frame without
\* rows has no columns, and selecting a price column raises KeyError.  The
\* two simple moving averages are computed; of the other indicators only
\* the shape of the value is kept.
Compute(f, n, get_signal, data) ==
    IF Len(data) = 0 THEN Error("KeyError")
    ELSE IF f = "get_simple_moving_average"
    THEN [status |-> "ok", value |-> <<RollingMeanLast(data, n)>>]
    ELSE IF f = "get_simple_moving_average_absolute"
    THEN [status |-> "ok", value |-> <<RollingMeanLast(data, Len(data))>>]
    ELSE [status |-> "ok", value |-> [i \in 1..SentinelSize(f, get_signal) |-> SomeNumber]]

\* what the indicator returns once _fetch_historical_data returned all
Finish(a, all) ==
    Caught(a.indicator, a.get_signal,
           Compute(a.indicator, a.days, a.get_signal, Reverse(all)))

InitInd ==
    /\ ChainIdle
    /\ CalIdle
    /\ today \in TodayChoices
    /\ LaterIdle

\* get_equity_history up to the first chunk's await: ValueError on an
\* unknown symbol; else the URL carries the two dates and the loop starts
\* (it is over at once when the start is after the end)
BeginHistory(a, start, end) ==
    IF ~is_valid_symbol(a.symbol, FALSE, eq_symbols)
    THEN /\ ind_pc' = "done"
         /\ ind_result' = Caught(a.indicator, a.get_signal, Error("ValueError"))
         /\ UNCHANGED <<ind_range, current_start>>
    ELSE /\ ind_range' = <<DateFields(start), DateFields(end)>>
         /\ current_start' = Ordinal(DateFields(start))
         /\ IF start <= end
            THEN /\ ind_pc' = "chunk"
                 /\ ind_result' = ind_result
            ELSE /\ ind_pc' = "done"
                 /\ ind_result' = Finish(a, <<>>)

\* an indicator is called and runs up to its first await
IndCall ==
    /\ ind_pc = "idle"
    /\ \E f \in Indicators, symbol \in IndSymbols, get_signal \in BOOLEAN :
       \E n \in DayArgs(f) :
        LET a == [indicator |-> f, symbol |-> symbol, days |-> n, get_signal |-> get_signal] IN
        /\ get_signal => f = "get_moving_average_convergence_divergence"
        /\ ind_args' = a
        /\ IF f = "get_simple_moving_average_absolute"
           THEN BeginHistory(a, today - n, today)
           ELSE /\ ind_pc' = "holidays"
                /\ UNCHANGED <<ind_range, current_start, ind_result>>
    /\ UNCHANGED <<chainVars, calVars, moreVars, fnoVars, bsVars, betaVars, today, all_data, ind_fetches>>

\* the holidays arrive: _get_past_trading_date returns the start date and
\* the indicator goes on to get_equity_history
IndHolidaysReturn ==
    /\ ind_pc = "holidays"
    /\ \E fo \in HolidayLists(today) :
        LET parsed == {Ordinal(h.tradingDate) : h \in fo}
            n == PastDays(ind_args.indicator, ind_args.days)
        IN BeginHistory(ind_args, WalkBack(StartDate(today, n), n, parsed), today)
    /\ ind_fetches' = Append(ind_fetches, "holidays")
    /\ UNCHANGED <<chainVars, calVars, moreVars, fnoVars, bsVars, betaVars, today, ind_args, all_data>>

\* get_holidays raises inside _get_past_trading_date
IndHolidaysFail ==
    /\ ind_pc = "holidays"
    /\ ind_fetches' = Append(ind_fetches, "holidays failed")
    /\ ind_result' = Caught(ind_args.indicator, ind_args.get_signal, Error("FetchError"))
    /\ ind_pc' = "done"
    /\ UNCHANGED <<chainVars, calVars, moreVars, fnoVars, bsVars, betaVars, today,
                   ind_args, ind_range, current_start, all_data>>

\* the end of one pass of the while loop: all_data is what the pass left,
\* current_start moves past the chunk, and after the last chunk the
\* reversed frame goes back to the indicator
EndOfChunk(all) ==
    LET end == Ordinal(ind_range[2])
        next == ChunkEnd(current_start, end, DefaultChunkSize) + 1
    IN /\ all_data' = all
       /\ current_start' = next
       /\ IF next <= end
          THEN /\ ind_pc' = "chunk"
               /\ ind_result' = ind_result
          ELSE /\ ind_pc' = "done"
               /\ ind_result' = Finish(ind_args, all)

\* a chunk's fetch returns rows, which are appended to all_data
IndChunkReturn ==
    /\ ind_pc = "chunk"
    /\ \E chunk_data \in ChunkResponses(current_start,
                             ChunkEnd(current_start, Ordinal(ind_range[2]), DefaultChunkSize)) :
        EndOfChunk(all_data \o chunk_data.data)
    /\ ind_fetches' = Append(ind_fetches, "chunk")
    /\ UNCHANGED <<chainVars, calVars, moreVars, fnoVars, bsVars, betaVars, today, ind_args, ind_range>>

\* a chunk's fetch raises, or its JSON has no 'data' (ValueError): the
\* error is logged and the loop goes on
IndChunkFails ==
    /\ ind_pc = "chunk"
    /\ EndOfChunk(all_data)
    /\ ind_fetches' = Append(ind_fetches, "chunk failed")
    /\ UNCHANGED <<chainVars, calVars, moreVars, fnoVars, bsVars, betaVars, today, ind_args, ind_range>>

NextInd == IndCall \/ IndHolidaysReturn \/ IndHolidaysFail \/ IndChunkReturn \/ IndChunkFails

SpecInd == InitInd /\ [][NextInd]_vars

(***************************************************************************)
(* Properties of the indicators.                                           *)
(***************************************************************************)
\* the size of each indicator's result as documented: a scalar (1), or the
\* tuple of Bollinger (3), Ichimoku (5), Fibonacci (5), support and
\* resistance (2), and of MACD with its signal line (2)
DocumentedSize(f, get_signal) ==
    CASE f = "get_bollinger_bands" -> 3
      [] f = "get_ichimoku_cloud" -> 5
      [] f = "get_fibonacci_retracement" -> 5
      [] f = "get_support_and_resistance_levels" -> 2
      [] f = "get_moving_average_convergence_divergence" /\ get_signal -> 2
      [] OTHER -> 1

\* the fetches of history chunks the call made, as they ended
ChunkFetches == SelectSeq(ind_fetches, LAMBDA t : t \in {"chunk", "chunk failed"})

\* the history fetch failed: every chunk's fetch did
HistoryFailed ==
    /\ Len(ChunkFetches) > 0
    /\ \A i \in 1..Len(ChunkFetches) : ChunkFetches[i] = "chunk failed"

\* the holiday fetch failed
HolidaysFailed == \E i \in 1..Len(ind_fetches) : ind_fetches[i] = "holidays failed"

C13_ShortHistoryGivesZero ==
    (/\ ind_pc = "done"
     /\ ind_args.indicator = "get_simple_moving_average"
     /\ Len(ChunkFetches) > 0
     /\ Len(all_data) < ind_args.days)
    => ind_result = [status |-> "ok", value |-> <<Number(0)>>]


(***************************************************************************)
(* get_pcr.                                                                *)
(***************************************************************************)
\* what a get_pcr step leaves alone besides its own variables
pcrFrame == <<baseVars, ehVars, histVars, ilVars, dumpVars, sessVars, ichVars>>

\* the expiry_index arguments the model passes
ExpiryIndexes == {0, 1}

\* the loop over records.data from the i-th record on: inside one try, the
\* call open interest is added first and the put open interest second, so
\* a KeyError on 'CE' leaves both sums as they were and a KeyError on 'PE'
\* leaves the call sum increased
RECURSIVE PcrSums(_, _, _, _, _)
PcrSums(data, i, expiry_date, ce_oi, pe_oi) ==
    IF i > Len(data) THEN [ce_oi |-> ce_oi, pe_oi |-> pe_oi]
    ELSE LET item == data[i] IN
         IF item.expiryDate # expiry_date
         THEN PcrSums(data, i + 1, expiry_date, ce_oi, pe_oi)
         ELSE IF "CE" \notin DOMAIN item
         THEN PcrSums(data, i + 1, expiry_date, ce_oi, pe_oi)
         ELSE IF "PE" \notin DOMAIN item
         THEN PcrSums(data, i + 1, expiry_date, ce_oi + item.CE.openInterest, pe_oi)
         ELSE PcrSums(data, i + 1, expiry_date,
                      ce_oi + item.CE.openInterest, pe_oi + item.PE.openInterest)

\* get_pcr once the payload is there: IndexError when expiryDates has no
\* such index, +Infinity when the call sum is 0, else the quotient pe_oi /
\* ce_oi, kept as its two terms
PcrOf(p, expiry_index) ==
    IF expiry_index >= Len(p.records.expiryDates) THEN Error("IndexError")
    ELSE LET expiry_date == p.records.expiryDates[expiry_index + 1]
             sums == PcrSums(p.records.data, 1, expiry_date, 0, 0)
         IN IF sums.ce_oi = 0
            THEN [status |-> "ok", expiry |-> expiry_date, inf |-> TRUE, num |-> 0, den |-> 1]
            ELSE [status |-> "ok", expiry |-> expiry_date, inf |-> FALSE,
                  num |-> sums.pe_oi, den |-> sums.ce_oi]

InitPcr ==
    /\ ChainIdle
    /\ CalIdle
    /\ today \in TodayChoices
    /\ LaterIdle

\* get_pcr up to the await of get_option_chain
PcrCall ==
    /\ pcr_pc = "idle"
    /\ \E symbol \in Symbols, expiry_index \in ExpiryIndexes :
        /\ pcr_args' = [symbol |-> symbol, expiry_index |-> expiry_index]
        /\ IF is_valid_symbol(symbol, FALSE, eq_symbols)
           THEN /\ pcr_pc' = "fetching"
                /\ pcr_result' = pcr_result
           ELSE /\ pcr_pc' = "done"
                /\ pcr_result' = Error("InvalidSymbol")
    /\ UNCHANGED <<pcrFrame, pcr_payload>>

\* the option chain arrives and get_pcr runs to its end
PcrFetchReturn ==
    /\ pcr_pc = "fetching"
    /\ \E p \in Payloads :
        /\ pcr_payload' = p
        /\ pcr_result' = PcrOf(p, pcr_args.expiry_index)
    /\ pcr_pc' = "done"
    /\ UNCHANGED <<pcrFrame, pcr_args>>

\* the fetch raises and the error propagates
PcrFetchFails ==
    /\ pcr_pc = "fetching"
    /\ pcr_result' = Error("FetchError")
    /\ pcr_pc' = "done"
    /\ UNCHANGED <<pcrFrame, pcr_args, pcr_payload>>

NextPcr == PcrCall \/ PcrFetchReturn \/ PcrFetchFails

SpecPcr == InitPcr /\ [][NextPcr]_vars

\* the open interest of a leg of the records of the selected expiry, summed
\* over the records that have the leg
RECURSIVE LegTotal(_, _, _)
LegTotal(data, i, option_type) ==
    IF i > Len(data) THEN 0
    ELSE (IF data[i].expiryDate = pcr_result.expiry /\ option_type \in DOMAIN data[i]
          THEN data[i][option_type].openInterest ELSE 0)
         + LegTotal(data, i + 1, option_type)

\* C21: get_pcr returns the put open interest over the call open interest
\* of the records of the selected expiry, each leg counted wherever it is
\* present (a record with only a PE leg counts for the puts), and
\* +Infinity when the call total is zero.
C21_PcrCountsEveryLeg ==
    (pcr_pc = "done" /\ pcr_result.status = "ok") =>
        LET puts == LegTotal(pcr_payload.records.data, 1, "PE")
            calls == LegTotal(pcr_payload.records.data, 1, "CE")
        IN IF calls = 0 THEN pcr_result.inf
           ELSE /\ ~pcr_result.inf
                /\ pcr_result.num * calls = puts * pcr_result.den


(***************************************************************************)
(* get_expiry_history.                                                     *)
(***************************************************************************)
\* what a get_expiry_history step leaves alone besides its own variables
ehFrame == <<baseVars, pcrVars, histVars, ilVars, dumpVars, sessVars, ichVars>>

\* the start_date and end_date arguments: three in the documented
\* dd-mm-yyyy form and one that is not
NumericDateStrs == {"30-01-2025", "06-02-2025", "13-02-2025", "06-Feb-2025"}

\* whether strptime(s, "%d-%m-%Y") accepts the string
IsNumericDate(s) == s \in {"30-01-2025", "06-02-2025", "13-02-2025"}

\* datetime.datetime.strptime(s, "%d-%m-%Y").date(), as a day ordinal
ParseNumericDate(s) ==
    CASE s = "30-01-2025" -> 30
      [] s = "06-02-2025" -> 37
      [] s = "13-02-2025" -> 44

\* the instrument_type arguments
InstrumentArgs == {"options", "Futures", "swaps"}

\* instrument_type.lower()
Lower(s) == IF s = "Futures" THEN "futures" ELSE s

\* the keys of expiryDatesByInstrument
InstrumentKeys == {"OPTSTK", "FUTSTK"}

\* 'OPT' in key, 'FUT' in key
KeyContains(key, part) ==
    \/ key = "OPTSTK" /\ part = "OPT"
    \/ key = "FUTSTK" /\ part = "FUT"

\* the date strings of one instrument, in any order, repeats included
ExpiryHistoryLists == SeqsUpTo({"30-Jan-2025", "06-Feb-2025", "13-Feb-2025"}, MaxExpiries)

\* expiryDatesByInstrument as the dict iterates: its (key, dates) entries
\* in insertion order, no key twice
ExpiryHistoryPayloads ==
    {q \in SeqsUpTo([key : InstrumentKeys, dates : ExpiryHistoryLists], 2) :
        \A i, j \in DOMAIN q : q[i].key = q[j].key => i = j}

\* the for/else over the dict's items: the index of the first key that
\* holds the instrument's tag, 0 when the loop ends without break
RECURSIVE SelectedEntry(_, _, _)
SelectedEntry(q, i, instrument) ==
    IF i > Len(q) THEN 0
    ELSE IF instrument = "options" /\ KeyContains(q[i].key, "OPT") THEN i
    ELSE IF instrument = "futures" /\ KeyContains(q[i].key, "FUT") THEN i
    ELSE SelectedEntry(q, i + 1, instrument)

\* the loop over payload_data from index i on
RECURSIVE FilterHistory(_, _, _, _, _, _)
FilterHistory(payload_data, i, start_date_obj, end_date_obj, filtered_dates, added_after_end_date) ==
    IF i > Len(payload_data) THEN filtered_dates
    ELSE LET date_str == payload_data[i]
             date_obj == ParseDate(date_str)
         IN IF start_date_obj <= date_obj /\ date_obj <= end_date_obj
            THEN FilterHistory(payload_data, i + 1, start_date_obj, end_date_obj,
                               Append(filtered_dates, date_str), added_after_end_date)
            ELSE IF date_obj > end_date_obj /\ ~added_after_end_date
            THEN FilterHistory(payload_data, i + 1, start_date_obj, end_date_obj,
                               Append(filtered_dates, date_str), TRUE)
            ELSE FilterHistory(payload_data, i + 1, start_date_obj, end_date_obj,
                               filtered_dates, added_after_end_date)

\* get_expiry_history after the payload has arrived
ExpiryHistoryOf(a, q) ==
    IF ~(IsNumericDate(a.start_date) /\ IsNumericDate(a.end_date))
    THEN Error("InvalidDateFormat")
    ELSE LET k == SelectedEntry(q, 1, Lower(a.instrument_type)) IN
         IF k = 0 THEN Error("NoExpiryDates")
         ELSE [status |-> "ok",
               dates |-> FilterHistory(q[k].dates, 1, ParseNumericDate(a.start_date),
                                       ParseNumericDate(a.end_date), <<>>, FALSE)]

InitExpiryHistory ==
    /\ ChainIdle
    /\ CalIdle
    /\ today \in TodayChoices
    /\ LaterIdle

\* get_expiry_history up to the await of the fetch
ExpiryHistoryCall ==
    /\ eh_pc = "idle"
    /\ \E symbol \in {"infy", "ZZZ"}, start_date \in NumericDateStrs,
          end_date \in NumericDateStrs, instrument_type \in InstrumentArgs :
        /\ eh_args' = [symbol |-> symbol, start_date |-> start_date,
                       end_date |-> end_date, instrument_type |-> instrument_type]
        /\ IF ~is_valid_symbol(symbol, FALSE, eq_symbols)
           THEN /\ eh_pc' = "done"
                /\ eh_result' = Error("InvalidSymbol")
           ELSE IF Lower(instrument_type) \notin {"options", "futures"}
           THEN /\ eh_pc' = "done"
                /\ eh_result' = Error("InvalidInstrument")
           ELSE /\ eh_pc' = "fetching"
                /\ eh_result' = eh_result
    /\ UNCHANGED <<ehFrame, eh_payload>>

\* the payload arrives and the call runs to its end
ExpiryHistoryFetchReturn ==
    /\ eh_pc = "fetching"
    /\ \E q \in ExpiryHistoryPayloads :
        /\ eh_payload' = q
        /\ eh_result' = ExpiryHistoryOf(eh_args, q)
    /\ eh_pc' = "done"
    /\ UNCHANGED <<ehFrame, eh_args>>

\* the fetch raises and the error propagates
ExpiryHistoryFetchFails ==
    /\ eh_pc = "fetching"
    /\ eh_result' = Error("FetchError")
    /\ eh_pc' = "done"
    /\ UNCHANGED <<ehFrame, eh_args, eh_payload>>

NextExpiryHistory ==
    ExpiryHistoryCall \/ ExpiryHistoryFetchReturn \/ ExpiryHistoryFetchFails

SpecExpiryHistory == InitExpiryHistory /\ [][NextExpiryHistory]_vars

\* the entries of q at the indexes of K from i on, in the order of q
RECURSIVE KeepAt(_, _, _)
KeepAt(q, i, K) ==
    IF i > Len(q) THEN <<>>
    ELSE (IF i \in K THEN <<q[i]>> ELSE <<>>) \o KeepAt(q, i + 1, K)

\* the dates of the selected instrument in the payload of a returned call
SelectedDates ==
    eh_payload[SelectedEntry(eh_payload, 1, Lower(eh_args.instrument_type))].dates

\* C22: get_expiry_history returns, in payload order, every date of the
\* selected instrument in [start_date, end_date] and the first date in
\* payload order that is later than end_date, and no date earlier than
\* start_date.
C22_InRangePlusOneAfter ==
    (eh_pc = "done" /\ eh_result.status = "ok") =>
        LET data == SelectedDates
            start == ParseNumericDate(eh_args.start_date)
            end == ParseNumericDate(eh_args.end_date)
            InRange == {i \in DOMAIN data :
                           start <= ParseDate(data[i]) /\ ParseDate(data[i]) <= end}
            FirstAfter == {i \in DOMAIN data :
                              /\ ParseDate(data[i]) > end
                              /\ \A j \in 1..(i - 1) : ParseDate(data[j]) <= end}
        IN /\ eh_result.dates = KeepAt(data, 1, InRange \cup FirstAfter)
           /\ \A i \in DOMAIN eh_result.dates : ParseDate(eh_result.dates[i]) >= start

\* the returned dates when start_date is not after end_date: none is
\* earlier than start_date
C22_OrderedRange ==
    (eh_pc = "done" /\ eh_result.status = "ok"
        /\ ParseNumericDate(eh_args.start_date) <= ParseNumericDate(eh_args.end_date))
    => \A i \in DOMAIN eh_result.dates :
           ParseDate(eh_result.dates[i]) >= ParseNumericDate(eh_args.start_date)


(***************************************************************************)
(* _fetch_historical_data, called with a URL and a chunk size.             *)
(***************************************************************************)
\* what a _fetch_historical_data step leaves alone besides its own variables
histFrame == <<baseVars, pcrVars, ehVars, ilVars, dumpVars, sessVars, ichVars>>

\* the chunk_size arguments: the default and two small ones
ChunkSizes == {1, 2, DefaultChunkSize}

\* the first and last days of the ranges asked for; 34 is Monday 3 February
HistoryStarts == {1, 34}
HistoryEnds == {33, 34, 36, 58}

\* the expiry_date arguments of get_derivative_history for a range: the
\* start date, the end date and 27 March, in the dd-mm-yyyy form of the
\* other two dates
ExpiryArgs(start, end) == {DateFields(start), DateFields(end), DateFields(86)}

\* the URL get_equity_history builds: the path, the symbol and the
\* parameters that carry a date string, each date as its dd-mm-yyyy fields
EquityUrl(symbol, start_date, end_date) ==
    [path |-> "cm/equity", symbol |-> symbol,
     params |-> [from |-> start_date, to |-> end_date]]

\* the URL get_derivative_history builds
DerivativeUrl(symbol, start_date, end_date, expiry_date) ==
    [path |-> "fo/derivatives", symbol |-> symbol,
     params |-> [from |-> start_date, to |-> end_date, expiryDate |-> expiry_date]]

\* the URLs the callers hand to _fetch_historical_data
HistoryUrls ==
    UNION {{EquityUrl("INFY", DateFields(start), DateFields(end))}
           \cup {DerivativeUrl("INFY", DateFields(start), DateFields(end), e) :
                    e \in ExpiryArgs(start, end)} :
           start \in HistoryStarts, end \in HistoryEnds}

\* _extract_start_end_dates: the values after from= and to=
_extract_start_end_dates(url) == <<url.params.from, url.params.to>>

\* str.replace(old, new) on the URL: every occurrence of the date string
\* old becomes new, whichever parameter it is the value of
replace(url, old, new) ==
    [url EXCEPT !.params =
        [k \in DOMAIN url.params |->
            IF url.params[k] = old THEN new ELSE url.params[k]]]

\* chunk_url: the two replacements one after the other, with the chunk's
\* dates formatted by strftime("%d-%m-%Y")
ChunkUrl(url, chunk_start, chunk_end) ==
    LET dates == _extract_start_end_dates(url)
    IN replace(replace(url, dates[1], DateFields(chunk_start)),
               dates[2], DateFields(chunk_end))

\* the number of passes of the while loop
NumChunks(start, end, chunk_size) ==
    IF start > end THEN 0 ELSE (end - start) \div chunk_size + 1

\* all_data after a pass whose fetch raised or whose JSON had no 'data':
\* the except branch only logs
AfterFailureCleared(all) == <<>>
AfterFailure(all) == all

\* strptime(start_date_str, "%d-%m-%Y") and the same for the end date
HistStart == Ordinal(_extract_start_end_dates(hist_args.url)[1])
HistEnd == Ordinal(_extract_start_end_dates(hist_args.url)[2])

\* current_end of the pass the loop is in
HistCurrentEnd == ChunkEnd(hist_current_start, HistEnd, hist_args.chunk_size)

InitHistory ==
    /\ ChainIdle
    /\ CalIdle
    /\ today \in TodayChoices
    /\ LaterIdle

\* _fetch_historical_data up to the first chunk's await, or to its return
\* when the loop has no pass
HistCall ==
    /\ hist_pc = "idle"
    /\ \E url \in HistoryUrls, chunk_size \in ChunkSizes :
        LET dates == _extract_start_end_dates(url)
            start_date == Ordinal(dates[1])
            end_date == Ordinal(dates[2])
        IN /\ NumChunks(start_date, end_date, chunk_size) <= MaxChunks
           /\ hist_args' = [url |-> url, chunk_size |-> chunk_size]
           /\ hist_current_start' = start_date
           /\ IF start_date <= end_date
              THEN /\ hist_pc' = "chunk"
                   /\ hist_result' = hist_result
              ELSE /\ hist_pc' = "done"
                   /\ hist_result' = [status |-> "ok", table |-> Reverse(<<>>)]
    /\ UNCHANGED <<histFrame, hist_all_data, hist_fetches>>

\* the end of one pass: all_data is what the pass left, the fetch is on
\* record, current_start moves past the chunk, and after the last pass
\* the reversed frame is returned
HistEndOfChunk(all, outcome) ==
    LET next == HistCurrentEnd + 1
    IN /\ hist_all_data' = all
       /\ hist_fetches' = Append(hist_fetches,
              [url |-> ChunkUrl(hist_args.url, hist_current_start, HistCurrentEnd),
               outcome |-> outcome])
       /\ hist_current_start' = next
       /\ IF next <= HistEnd
          THEN /\ hist_pc' = "chunk"
               /\ hist_result' = hist_result
          ELSE /\ hist_pc' = "done"
               /\ hist_result' = [status |-> "ok", table |-> Reverse(all)]
       /\ UNCHANGED <<histFrame, hist_args>>

\* a chunk's fetch returns JSON with 'data': its rows, newest first, are
\* appended to all_data
HistChunkReturn ==
    /\ hist_pc = "chunk"
    /\ \E chunk_data \in ChunkResponses(hist_current_start, HistCurrentEnd) :
        HistEndOfChunk(hist_all_data \o chunk_data.data, chunk_data)

\* a chunk's fetch returns JSON without 'data': ValueError, caught
HistChunkNoData ==
    /\ hist_pc = "chunk"
    /\ HistEndOfChunk(AfterFailure(hist_all_data), [message |-> "no data"])

\* a chunk's fetch raises: caught
HistChunkFails ==
    /\ hist_pc = "chunk"
    /\ HistEndOfChunk(AfterFailure(hist_all_data), [raised |-> "FetchError"])

NextHistory == HistCall \/ HistChunkReturn \/ HistChunkNoData \/ HistChunkFails

SpecHistory == InitHistory /\ [][NextHistory]_vars

\* the first and last day of the i-th chunk fetched, read off its URL
FetchedStart(i) == Ordinal(hist_fetches[i].url.params.from)
FetchedEnd(i) == Ordinal(hist_fetches[i].url.params.to)

\* whether the i-th fetch gave rows to all_data
Succeeded(i) == "data" \in DOMAIN hist_fetches[i].outcome

\* the chunks fetched so far start at the start date, follow one another
\* without gap or overlap, have between one and chunk_size days and stay in
\* the range; the loop variable is past them all; at the return they end
\* at the end date and every day of the range is in exactly one of them,
\* and a range with the start after the end has no fetch and an empty table
ChunksPartitionRange ==
    hist_pc # "idle" =>
        LET n == Len(hist_fetches) IN
        /\ \A i \in 1..n :
               /\ FetchedStart(i) <= FetchedEnd(i)
               /\ FetchedEnd(i) - FetchedStart(i) + 1 <= hist_args.chunk_size
               /\ FetchedEnd(i) <= HistEnd
               /\ i = 1 => FetchedStart(i) = HistStart
               /\ i < n => FetchedStart(i + 1) = FetchedEnd(i) + 1
        /\ n > 0 => hist_current_start = FetchedEnd(n) + 1
        /\ hist_pc = "done" =>
               /\ \A d \in HistStart..HistEnd :
                      Cardinality({i \in 1..n : FetchedStart(i) <= d /\ d <= FetchedEnd(i)}) = 1
               /\ HistStart > HistEnd =>
                      n = 0 /\ hist_result = [status |-> "ok", table |-> <<>>]

\* a pass of the loop moves current_start forward, and the loop is over
\* exactly when current_start has passed the end date: the days left in
\* the range decrease with every pass, so the passes are finitely many
LoopAdvances ==
    hist_pc = "chunk" =>
        /\ hist_current_start' > hist_current_start
        /\ Len(hist_fetches') = Len(hist_fetches) + 1
        /\ hist_pc' = "done" <=> hist_current_start' > HistEnd

\* C23: with chunk_size >= 1 the chunks of _fetch_historical_data are
\* consecutive, pairwise disjoint, at most chunk_size days long and cover
\* every day of the range exactly once, with one fetch per chunk in
\* ascending order; the loop terminates; with the start after the end
\* there is no fetch and the table is empty.
C23_ChunksCoverRangeOnce == []ChunksPartitionRange /\ [][LoopAdvances]_histVars

\* a call over three days in chunks of two has returned: a full chunk and
\* a shorter last one
C23_Witness ==
    /\ hist_pc = "done"
    /\ hist_args.chunk_size = 2
    /\ Len(hist_fetches) = 2
    /\ FetchedEnd(1) - FetchedStart(1) + 1 = 2
    /\ FetchedEnd(2) = FetchedStart(2)

\* C24: the table _fetch_historical_data returns is ascending by date
\* with no date twice, the upstream giving each chunk's rows newest first,
\* also when the range has more than one chunk.
C24_AscendingNoDuplicates ==
    hist_pc = "done" =>
        \A i \in 1..(Len(hist_result.table) - 1) :
            hist_result.table[i].CH_TIMESTAMP < hist_result.table[i + 1].CH_TIMESTAMP

\* the same for a range of a single chunk
C24_SingleChunkAscending ==
    (hist_pc = "done" /\ Len(hist_fetches) <= 1) =>
        \A i \in 1..(Len(hist_result.table) - 1) :
            hist_result.table[i].CH_TIMESTAMP < hist_result.table[i + 1].CH_TIMESTAMP

\* C28: a chunk's URL differs from the caller's URL in nothing but the
\* values of from= and to=; expiryDate in particular is the caller's, also
\* when it is the same string as the start or the end date.
C28_OnlyFromAndToChange ==
    \A i \in 1..Len(hist_fetches) :
        LET chunk_url == hist_fetches[i].url IN
        /\ chunk_url.path = hist_args.url.path
        /\ chunk_url.symbol = hist_args.url.symbol
        /\ DOMAIN chunk_url.params = DOMAIN hist_args.url.params
        /\ \A k \in DOMAIN chunk_url.params \ {"from", "to"} :
               chunk_url.params[k] = hist_args.url.params[k]

\* the same for URLs whose expiryDate is neither the start nor the end date
C28_OtherExpiryUnchanged ==
    \A i \in 1..Len(hist_fetches) :
        ("expiryDate" \in DOMAIN hist_args.url.params
            /\ hist_args.url.params.expiryDate \notin
                   {hist_args.url.params.from, hist_args.url.params.to})
        => hist_fetches[i].url.params.expiryDate = hist_args.url.params.expiryDate

\* the rows the succeeded fetches returned
SucceededRows ==
    UNION {Range(hist_fetches[i].outcome.data) : i \in {j \in 1..Len(hist_fetches) : Succeeded(j)}}

\* C29: _fetch_historical_data does not raise when a chunk's fetch fails
\* or its JSON has no 'data': the chunk is skipped, the chunks after it
\* are fetched, and the table has exactly the rows of the chunks that
\* succeeded (none when all failed).
C29_FailedChunksAreSkipped ==
    hist_pc = "done" =>
        /\ hist_result.status = "ok"
        /\ Len(hist_fetches) = NumChunks(HistStart, HistEnd, hist_args.chunk_size)
        /\ Range(hist_result.table) = SucceededRows
        /\ Len(hist_result.table) = Cardinality(SucceededRows)

\* a call has returned after a chunk that gave rows, a later chunk whose
\* fetch failed and a chunk after that which gave rows again
C29_Witness ==
    /\ hist_pc = "done"
    /\ \E i, j, k \in 1..Len(hist_fetches) :
           /\ i < j /\ j < k
           /\ Succeeded(i) /\ Len(hist_fetches[i].outcome.data) > 0
           /\ ~Succeeded(j)
           /\ Succeeded(k) /\ Len(hist_fetches[k].outcome.data) > 0


(***************************************************************************)
(* get_index_list: an async method under functools.cache.  The cached      *)
(* value of get_index_list(self) is the coroutine object the first call    *)
(* made, and every later call on the instance gets that same object.       *)
(***************************************************************************)
\* what a get_index_list step leaves alone besides its own variables
ilFrame == <<baseVars, pcrVars, ehVars, histVars, dumpVars, sessVars, ichVars>>

\* the JSON of allIndices
IndexPayloads ==
    {[data |-> q] : q \in SeqsUpTo({[index |-> "NIFTY 50"], [index |-> "NIFTY BANK"]}, 2)}
    \cup {[message |-> "no data"]}

\* [item["index"] for item in payload["data"]]
IndexNames(p) == [i \in 1..Len(p.data) |-> p.data[i].index]

\* awaiting a coroutine object that is not fresh: RuntimeError, 'coroutine
\* is being awaited already' while it is suspended in another caller's
\* await and 'cannot reuse already awaited coroutine' once it has finished
AwaitCached(state) == Error("RuntimeError")

InitIndexList ==
    /\ ChainIdle
    /\ CalIdle
    /\ today \in TodayChoices
    /\ LaterIdle

\* a caller does 'await nse.get_index_list()': on a cache miss the call
\* makes the coroutine, the cache keeps it and the await runs it up to
\* the fetch; on a hit the call returns the cached coroutine object and
\* the await of it raises
IndexListCall ==
    \E c \in Callers :
        /\ il_pc[c] = "idle"
        /\ IF il_cache = "miss"
           THEN /\ il_cache' = "suspended"
                /\ il_pc' = [il_pc EXCEPT ![c] = "fetching"]
                /\ il_ret' = il_ret
           ELSE /\ il_cache' = il_cache
                /\ il_pc' = [il_pc EXCEPT ![c] = "done"]
                /\ il_ret' = [il_ret EXCEPT ![c] = AwaitCached(il_cache)]
        /\ UNCHANGED ilFrame

\* the fetch returns and the coroutine finishes: the caller that runs it
\* gets the names, or KeyError on a payload without 'data'
IndexListFetchReturn ==
    \E c \in Callers :
        /\ il_pc[c] = "fetching"
        /\ \E p \in IndexPayloads :
            il_ret' = [il_ret EXCEPT ![c] =
                          IF "data" \in DOMAIN p
                          THEN [status |-> "ok", list |-> IndexNames(p)]
                          ELSE Error("KeyError")]
        /\ il_pc' = [il_pc EXCEPT ![c] = "done"]
        /\ il_cache' = "finished"
        /\ UNCHANGED ilFrame

\* the fetch raises and the coroutine finishes with the exception
IndexListFetchFails ==
    \E c \in Callers :
        /\ il_pc[c] = "fetching"
        /\ il_ret' = [il_ret EXCEPT ![c] = Error("FetchError")]
        /\ il_pc' = [il_pc EXCEPT ![c] = "done"]
        /\ il_cache' = "finished"
        /\ UNCHANGED ilFrame

NextIndexList == IndexListCall \/ IndexListFetchReturn \/ IndexListFetchFails

SpecIndexList == InitIndexList /\ [][NextIndexList]_vars

\* C25: every awaited call of get_index_list on an instance, the second
\* and later ones included, returns the list of index names: once a call
\* has returned a list, no call raises and all return that list.
C25_EveryCallReturnsTheList ==
    \A c, d \in Callers :
        (il_pc[c] = "done" /\ il_ret[c].status = "ok" /\ il_pc[d] = "done")
        => il_ret[d] = il_ret[c]


(***************************************************************************)
(* NSE_Client (stockfetch.api) and DataAPIClient (stockfetch.core): the    *)
(* data directory and the dump of get_historical_ohlc_data.  The client    *)
(* is synchronous: each call is one step.                                  *)
(***************************************************************************)
\* what a step of the client leaves alone besides its own variables
dumpFrame == <<baseVars, pcrVars, ehVars, histVars, ilVars, sessVars, ichVars>>

\* the directory paths passed to the client; the last one lies inside the
\* first
DirPaths == {"dumps", "duops", "dumps/2025"}

\* whether the directory a path lies in exists (the working directory does)
ParentExists(path) == path = "dumps/2025" => "dumps" \in fs_dirs

\* what the HTTP GET of get_historical_ohlc_data can give: status 200 with
\* 'data', another status, or an exception
OhlcResponses == {"200", "404", "raises"}

\* the directory _dump_data writes into: the argument when it exists,
\* else the configured directory when there is one and it exists, else
\* the argument after os.mkdir
DumpTarget(path) ==
    IF path \in fs_dirs THEN path
    ELSE IF data_directory_path # None /\ data_directory_path \in fs_dirs
    THEN data_directory_path
    ELSE path

\* whether _dump_data calls os.mkdir(data_directory_path)
DumpMakesDir(path) ==
    /\ path \notin fs_dirs
    /\ ~(data_directory_path # None /\ data_directory_path \in fs_dirs)

InitDump ==
    /\ ChainIdle
    /\ CalIdle
    /\ today \in TodayChoices
    /\ LaterIdle

\* set_data_directory_path: os.mkdir when the path does not exist
\* (FileNotFoundError when its parent does not either), then the
\* assignment
SetDataDirectoryPath ==
    /\ \E path \in DirPaths :
        IF path \in fs_dirs
        THEN /\ data_directory_path' = path
             /\ dump_last' = [op |-> "set_data_directory_path", path |-> path,
                              returned |-> "None", written |-> None]
             /\ UNCHANGED fs_dirs
        ELSE IF ParentExists(path)
        THEN /\ fs_dirs' = fs_dirs \cup {path}
             /\ data_directory_path' = path
             /\ dump_last' = [op |-> "set_data_directory_path", path |-> path,
                              returned |-> "None", written |-> None]
        ELSE /\ dump_last' = [op |-> "set_data_directory_path", path |-> path,
                              returned |-> "FileNotFoundError", written |-> None]
             /\ UNCHANGED <<fs_dirs, data_directory_path>>
    /\ UNCHANGED <<dumpFrame, fs_dumps>>

\* get_historical_ohlc_data(symbol, start_date, end_date, data_folder_path):
\* on status 200 the frame is dumped when data_folder_path is given and
\* then returned; an exception anywhere in the try, os.mkdir's included,
\* is printed and the call returns None, as it does on another status
GetHistoricalOhlcData ==
    /\ \E data_folder_path \in DirPaths \cup {None}, response \in OhlcResponses :
        LET call == [op |-> "get_historical_ohlc_data", path |-> data_folder_path]
        IN IF response # "200"
           THEN /\ dump_last' = call @@ [returned |-> "None", written |-> None]
                /\ UNCHANGED <<fs_dirs, fs_dumps>>
           ELSE IF data_folder_path = None
           THEN /\ dump_last' = call @@ [returned |-> "DataFrame", written |-> None]
                /\ UNCHANGED <<fs_dirs, fs_dumps>>
           ELSE IF DumpMakesDir(data_folder_path) /\ ~ParentExists(data_folder_path)
           THEN /\ dump_last' = call @@ [returned |-> "None", written |-> None]
                /\ UNCHANGED <<fs_dirs, fs_dumps>>
           ELSE /\ fs_dirs' = IF DumpMakesDir(data_folder_path)
                              THEN fs_dirs \cup {data_folder_path} ELSE fs_dirs
                /\ fs_dumps' = fs_dumps \cup {DumpTarget(data_folder_path)}
                /\ dump_last' = call @@ [returned |-> "DataFrame",
                                         written |-> DumpTarget(data_folder_path)]
    /\ UNCHANGED <<dumpFrame, data_directory_path>>

NextDump == SetDataDirectoryPath \/ GetHistoricalOhlcData

SpecDump == InitDump /\ [][NextDump]_vars

\* C26: after a successful get_historical_ohlc_data with data_folder_path
\* = p, the directory p exists and holds the dump the call wrote, also
\* when p did not exist before and another data directory had been set
\* with set_data_directory_path.
C26_DumpGoesToTheGivenFolder ==
    (dump_last.op = "get_historical_ohlc_data" /\ dump_last.returned = "DataFrame"
        /\ dump_last.path # None)
    => /\ dump_last.path \in fs_dirs
       /\ dump_last.path \in fs_dumps
       /\ dump_last.written = dump_last.path

\* the same when no data directory has been set
C26_NoConfiguredDirectory ==
    (dump_last.op = "get_historical_ohlc_data" /\ dump_last.returned = "DataFrame"
        /\ dump_last.path # None /\ data_directory_path = None)
    => /\ dump_last.path \in fs_dirs
       /\ dump_last.written = dump_last.path


(***************************************************************************)
(* NSEFetcher's session: concurrent _fetch_local calls that fail, close    *)
(* the shared session and install a new one.  A step is the code between   *)
(* two awaits.                                                             *)
(***************************************************************************)
\* what a step on the session leaves alone besides its own variables
sessFrame == <<baseVars, pcrVars, ehVars, histVars, ilVars, dumpVars, ichVars>>

InitSession ==
    /\ ChainIdle
    /\ CalIdle
    /\ today \in TodayChoices
    /\ LaterIdle

\* __aenter__: _init_session creates the first session
SessEnter ==
    /\ sess_main = "constructed"
    /\ session' = created + 1
    /\ created' = created + 1
    /\ sess_main' = "entered"
    /\ UNCHANGED <<sessFrame, closed, sess_pc, sess_ret>>

\* a _fetch_local call starts its first GET on the session of the moment
FetchLocalStart ==
    \E c \in Callers :
        /\ sess_main = "entered"
        /\ sess_pc[c] = "idle"
        /\ IF session = 0
           THEN /\ sess_pc' = [sess_pc EXCEPT ![c] = "done"]
                /\ sess_ret' = [sess_ret EXCEPT ![c] = "AttributeError"]
           ELSE /\ sess_pc' = [sess_pc EXCEPT ![c] = "get"]
                /\ sess_ret' = sess_ret
        /\ UNCHANGED <<sessFrame, session, created, closed, sess_main>>

\* the first GET answers and the JSON is returned
FetchLocalReturns ==
    \E c \in Callers :
        /\ sess_pc[c] = "get"
        /\ sess_pc' = [sess_pc EXCEPT ![c] = "done"]
        /\ sess_ret' = [sess_ret EXCEPT ![c] = "json"]
        /\ UNCHANGED <<sessFrame, session, created, closed, sess_main>>

\* the first GET fails: the except branch calls close(), which with a
\* session set awaits that session's close() and else returns at once
FetchLocalFails ==
    \E c \in Callers :
        /\ sess_pc[c] = "get"
        /\ IF session # 0
           THEN /\ closed' = closed \cup {session}
                /\ sess_pc' = [sess_pc EXCEPT ![c] = "closing"]
                /\ UNCHANGED <<session, created>>
           ELSE /\ session' = created + 1
                /\ created' = created + 1
                /\ sess_pc' = [sess_pc EXCEPT ![c] = "warmup"]
                /\ closed' = closed
        /\ UNCHANGED <<sessFrame, sess_main, sess_ret>>

\* the awaited session.close() is over: close() sets self.session = None
\* and returns, the caller assigns a new ClientSession and starts the GET
\* of the home page on it
CloseReturns ==
    \E c \in Callers :
        /\ sess_pc[c] = "closing"
        /\ session' = created + 1
        /\ created' = created + 1
        /\ sess_pc' = [sess_pc EXCEPT ![c] = "warmup"]
        /\ UNCHANGED <<sessFrame, closed, sess_main, sess_ret>>

\* the GET of the home page answers: the second GET of the payload starts
\* on the session of the moment
WarmupReturns ==
    \E c \in Callers :
        /\ sess_pc[c] = "warmup"
        /\ IF session = 0
           THEN /\ sess_pc' = [sess_pc EXCEPT ![c] = "done"]
                /\ sess_ret' = [sess_ret EXCEPT ![c] = "AttributeError"]
           ELSE /\ sess_pc' = [sess_pc EXCEPT ![c] = "retry"]
                /\ sess_ret' = sess_ret
        /\ UNCHANGED <<sessFrame, session, created, closed, sess_main>>

\* the GET of the home page or the second GET of the payload fails: the
\* error leaves _fetch_local
RetryFails ==
    \E c \in Callers :
        /\ sess_pc[c] \in {"warmup", "retry"}
        /\ sess_pc' = [sess_pc EXCEPT ![c] = "done"]
        /\ sess_ret' = [sess_ret EXCEPT ![c] = "ClientError"]
        /\ UNCHANGED <<sessFrame, session, created, closed, sess_main>>

\* the second GET of the payload answers
RetryReturns ==
    \E c \in Callers :
        /\ sess_pc[c] = "retry"
        /\ sess_pc' = [sess_pc EXCEPT ![c] = "done"]
        /\ sess_ret' = [sess_ret EXCEPT ![c] = "json"]
        /\ UNCHANGED <<sessFrame, session, created, closed, sess_main>>

\* __aexit__ after the calls are over: close() closes the session that is
\* set, if one is, and sets self.session = None
SessExit ==
    /\ sess_main = "entered"
    /\ \A c \in Callers : sess_pc[c] \in {"idle", "done"}
    /\ closed' = IF session # 0 THEN closed \cup {session} ELSE closed
    /\ session' = 0
    /\ sess_main' = "exited"
    /\ UNCHANGED <<sessFrame, created, sess_pc, sess_ret>>

NextSession ==
    \/ SessEnter
    \/ FetchLocalStart
    \/ FetchLocalReturns
    \/ FetchLocalFails
    \/ CloseReturns
    \/ WarmupReturns
    \/ RetryFails
    \/ RetryReturns
    \/ SessExit

SpecSession == InitSession /\ [][NextSession]_vars

\* C27: whatever the interleaving of concurrent _fetch_local calls that
\* fail and retry, once __aexit__ has completed every aiohttp session that
\* was created has been closed.
C27_EverySessionClosed ==
    sess_main = "exited" => \A n \in 1..created : n \in closed

\* the same when at most one call has gone through the except branch
C27_SingleRetryClosesAll ==
    (sess_main = "exited" /\ created <= 2) => \A n \in 1..created : n \in closed


(***************************************************************************)
(* get_ichimoku_cloud: the five lines at the last bar.  A series is a      *)
(* sequence of floats, one per bar, oldest first.                          *)
(***************************************************************************)
\* what a get_ichimoku_cloud step leaves alone besides its own variables
ichFrame == <<baseVars, pcrVars, ehVars, histVars, ilVars, dumpVars, sessVars>>

\* the history of n bars under a price pattern: the high two above and the
\* low two below the close
Bars(pattern, n) ==
    [i \in 1..n |-> [CH_TRADE_HIGH_PRICE |-> ClosePrice(pattern, i) + 2,
                     CH_TRADE_LOW_PRICE |-> ClosePrice(pattern, i) - 2,
                     CH_CLOSING_PRICE |-> ClosePrice(pattern, i)]]

\* data[column] at bar i
Column(data, column, i) == data[i][column]

\* the largest and the smallest member of a set of integers
MaxOf(S) == CHOOSE m \in S : \A x \in S : x <= m
MinOf(S) == CHOOSE m \in S : \A x \in S : m <= x

\* data[column].rolling(window).max() and .min() at bar i, in units of
\* 1/10000: NaN until the window is full
RollingMax(data, column, window, i) ==
    IF i < window THEN NaN
    ELSE Number(10000 * MaxOf({Column(data, column, j) : j \in (i - window + 1)..i}))
RollingMin(data, column, window, i) ==
    IF i < window THEN NaN
    ELSE Number(10000 * MinOf({Column(data, column, j) : j \in (i - window + 1)..i}))

\* (a + b) / 2: NaN when either is
Midpoint(a, b) ==
    IF a = NaN \/ b = NaN THEN NaN ELSE Number((a.x + b.x) \div 2)

\* (high.rolling(window).max() + low.rolling(window).min()) / 2 at bar i
MidRange(data, window, i) ==
    Midpoint(RollingMax(data, "CH_TRADE_HIGH_PRICE", window, i),
             RollingMin(data, "CH_TRADE_LOW_PRICE", window, i))

\* series.shift(periods) at bar i takes the value of bar i - periods; 0
\* when the series has no such bar and the value is NaN
ShiftSource(n, periods, i) == IF i - periods \in 1..n THEN i - periods ELSE 0

\* the body of the try after the history arrived: KeyError on a frame
\* without rows (it has no columns), else the five values at iloc[-1],
\* rounded to four decimals
Ichimoku(data) ==
    IF Len(data) = 0 THEN Error("KeyError")
    ELSE LET n == Len(data)
             tenkan_sen == MidRange(data, 9, n)
             kijun_sen == MidRange(data, 26, n)
             ahead == ShiftSource(n, 26, n)
             senkou_span_a ==
                 IF ahead = 0 THEN NaN
                 ELSE Midpoint(MidRange(data, 9, ahead), MidRange(data, 26, ahead))
             senkou_span_b == IF ahead = 0 THEN NaN ELSE MidRange(data, 52, ahead)
             back == ShiftSource(n, -26, n)
             chikou_span ==
                 IF back = 0 THEN NaN
                 ELSE Number(10000 * Column(data, "CH_CLOSING_PRICE", back))
         IN [status |-> "ok",
             value |-> <<tenkan_sen, kijun_sen, senkou_span_a, senkou_span_b, chikou_span>>]

InitIchimoku ==
    /\ ChainIdle
    /\ CalIdle
    /\ today \in TodayChoices
    /\ LaterIdle

\* get_ichimoku_cloud up to the await of the history
IchimokuCall ==
    /\ ich_pc = "idle"
    /\ ich_pc' = "history"
    /\ UNCHANGED <<ichFrame, ich_data, ich_result>>

\* the history arrives and the five values are computed
IchimokuHistoryReturns ==
    /\ ich_pc = "history"
    /\ \E pattern \in PricePatterns, n \in 0..MaxBars :
        /\ ich_data' = Bars(pattern, n)
        /\ ich_result' = Caught("get_ichimoku_cloud", FALSE, Ichimoku(Bars(pattern, n))).value
    /\ ich_pc' = "done"
    /\ UNCHANGED ichFrame

\* _get_past_trading_date or get_equity_history raises: the sentinel
IchimokuHistoryFails ==
    /\ ich_pc = "history"
    /\ ich_result' = Caught("get_ichimoku_cloud", FALSE, Error("FetchError")).value
    /\ ich_pc' = "done"
    /\ UNCHANGED <<ichFrame, ich_data>>

NextIchimoku == IchimokuCall \/ IchimokuHistoryReturns \/ IchimokuHistoryFails

SpecIchimoku == InitIchimoku /\ [][NextIchimoku]_vars

\* C30: with a history of at least 78 bars of defined values,
\* get_ichimoku_cloud returns five defined numbers: none of tenkan, kijun,
\* senkou A, senkou B and chikou at the last bar is NaN.
C30_FiveDefinedNumbers ==
    (ich_pc = "done" /\ Len(ich_data) >= 78) =>
        \A i \in 1..5 : ich_result[i] # NaN

\* the same for the first four values
C30_FirstFourDefined ==
    (ich_pc = "done" /\ Len(ich_data) >= 78) =>
        \A i \in 1..4 : ich_result[i] # NaN

=============================================================================
